---------------------------- MODULE Spec2Model ----------------------------
(***************************************************************************)
(* Model of the parameter-mapping templates, the gateway-proxy Lambda and  *)
(* the action-group Lambda template of aws-security-agentcore-training.    *)
(*                                                                         *)
(* Python values are tagged records.  A Python str is a sequence of        *)
(* one-character strings, so that int(), split(), strip(), lower(), str()  *)
(* and json.dumps() are computed character by character, as the            *)
(* interpreter computes them.  Dictionary keys that are only ever looked   *)
(* up (operation ids, tool names, parameter names) are TLA+ strings.       *)
(* A dict built at run time is the sequence of its <<key, value>> items in *)
(* insertion order.  Floats are not modelled.                              *)
(***************************************************************************)
EXTENDS Integers, Sequences, FiniteSets, TLC

VARIABLES
  mapper,              \* which template's map_parameters is called
  operation_id,        \* map_parameters argument
  bedrock_parameters,  \* map_parameters argument: sequence of [name, value]
  outcome,             \* what the call returned or raised
  pc,                  \* "ready" before the call, "done" after
  gw,                  \* the gateway-proxy lambda_handler invocation
  heap,                \* the list objects that outlive a call, by identity
  invocations,         \* the map_parameters invocations in progress
  returned,            \* what the finished invocations returned
  lam,                 \* an invocation of a template's lambda_handler
  wait,                \* a call of wait_for_agent_ready
  validation           \* a call of validate_response

vars == <<mapper, operation_id, bedrock_parameters, outcome, pc, gw,
          heap, invocations, returned, lam, wait, validation>>

---------------------------------------------------------------------------
(* Python values *)

None == [t |-> "none"]

PyStr(chars) == [t |-> "str", s |-> chars]

PyInt(n) == [t |-> "int", n |-> n]

PyBool(b) == [t |-> "bool", b |-> b]

PyList(items) == [t |-> "list", l |-> items]

PyDict(items) == [t |-> "dict", d |-> items]

\* bool(x): Python truthiness
truthy(x) ==
  CASE x.t = "none" -> FALSE
    [] x.t = "str"  -> Len(x.s) > 0
    [] x.t = "int"  -> x.n # 0
    [] x.t = "bool" -> x.b
    [] x.t = "list" -> Len(x.l) > 0
    [] x.t = "dict" -> Len(x.d) > 0

---------------------------------------------------------------------------
(* str methods and conversions *)

Whitespace == {" ", "\t", "\n", "\r"}

DigitChars == <<"0", "1", "2", "3", "4", "5", "6", "7", "8", "9">>

UpperChars == <<"A","B","C","D","E","F","G","H","I","J","K","L","M",
                "N","O","P","Q","R","S","T","U","V","W","X","Y","Z">>

LowerChars == <<"a","b","c","d","e","f","g","h","i","j","k","l","m",
                "n","o","p","q","r","s","t","u","v","w","x","y","z">>

IsDigit(c) == \E i \in 1..10 : DigitChars[i] = c

DigitValue(c) == (CHOOSE i \in 1..10 : DigitChars[i] = c) - 1

\* str.lower(), ASCII
lower(s) ==
  [i \in 1..Len(s) |->
     IF \E k \in 1..26 : UpperChars[k] = s[i]
       THEN LowerChars[CHOOSE k \in 1..26 : UpperChars[k] = s[i]]
       ELSE s[i]]

RECURSIVE lstrip(_)
lstrip(s) ==
  IF s # <<>> /\ Head(s) \in Whitespace THEN lstrip(Tail(s)) ELSE s

RECURSIVE rstrip(_)
rstrip(s) ==
  IF s # <<>> /\ s[Len(s)] \in Whitespace
    THEN rstrip(SubSeq(s, 1, Len(s) - 1))
    ELSE s

\* str.strip()
strip(s) == rstrip(lstrip(s))

\* str.split(sep) for a one-character sep: never empty, keeps empty segments
RECURSIVE split(_, _)
split(s, sep) ==
  IF \A i \in 1..Len(s) : s[i] # sep
    THEN <<s>>
    ELSE LET i == CHOOSE j \in 1..Len(s) :
                    s[j] = sep /\ \A k \in 1..(j - 1) : s[k] # sep
         IN  <<SubSeq(s, 1, i - 1)>> \o split(SubSeq(s, i + 1, Len(s)), sep)

RECURSIVE digits_value(_)
digits_value(s) ==
  IF s = <<>> THEN 0
  ELSE IF s[Len(s)] = "_" THEN digits_value(SubSeq(s, 1, Len(s) - 1))
  ELSE 10 * digits_value(SubSeq(s, 1, Len(s) - 1)) + DigitValue(s[Len(s)])

\* the literal int(str) accepts, after strip() and an optional sign:
\* digits, with single underscores allowed between digits
is_int_literal(s) ==
  /\ s # <<>>
  /\ \A i \in 1..Len(s) : IsDigit(s[i]) \/ s[i] = "_"
  /\ IsDigit(s[1]) /\ IsDigit(s[Len(s)])
  /\ \A i \in 1..(Len(s) - 1) : ~(s[i] = "_" /\ s[i + 1] = "_")

RECURSIVE nat_str(_)
nat_str(n) ==
  IF n < 10 THEN <<DigitChars[n + 1]>>
  ELSE nat_str(n \div 10) \o <<DigitChars[(n % 10) + 1]>>

\* str(n) for an int
int_str(n) == IF n < 0 THEN <<"-">> \o nat_str(-n) ELSE nat_str(n)

\* a call's result: a value, or the exception it raised
Returned(v) == [raised |-> "", value |-> v]

Raised(exc) == [raised |-> exc, value |-> None]

\* int(x)
int(x) ==
  CASE x.t = "int"  -> Returned(PyInt(x.n))
    [] x.t = "bool" -> Returned(PyInt(IF x.b THEN 1 ELSE 0))
    [] x.t = "str"  ->
         LET body == strip(x.s)
             neg  == body # <<>> /\ Head(body) = "-"
             mag  == IF body # <<>> /\ Head(body) \in {"+", "-"}
                       THEN Tail(body) ELSE body
         IN  IF is_int_literal(mag)
               THEN Returned(PyInt(IF neg THEN -digits_value(mag)
                                        ELSE digits_value(mag)))
               ELSE Raised("ValueError")
    [] OTHER -> Raised("TypeError")

RECURSIVE join(_, _)
join(parts, sep) ==
  IF parts = <<>> THEN <<>>
  ELSE IF Len(parts) = 1 THEN parts[1]
  ELSE parts[1] \o sep \o join(Tail(parts), sep)

\* repr(x) / str(x); a str is assumed free of quotes and backslashes
RECURSIVE repr(_)
repr(x) ==
  CASE x.t = "none" -> <<"N","o","n","e">>
    [] x.t = "str"  -> <<"'">> \o x.s \o <<"'">>
    [] x.t = "int"  -> int_str(x.n)
    [] x.t = "bool" -> IF x.b THEN <<"T","r","u","e">>
                              ELSE <<"F","a","l","s","e">>
    [] x.t = "list" ->
         <<"[">> \o join([i \in 1..Len(x.l) |-> repr(x.l[i])], <<",", " ">>)
                 \o <<"]">>
    [] x.t = "dict" ->
         <<"{">> \o join([i \in 1..Len(x.d) |->
                            repr(PyStr(x.d[i][1])) \o <<":", " ">>
                              \o repr(x.d[i][2])],
                         <<",", " ">>)
                 \o <<"}">>

str(x) == IF x.t = "str" THEN PyStr(x.s) ELSE PyStr(repr(x))

---------------------------------------------------------------------------
(* templates/complete-parameter-mapper.py: the static tables *)

GATEWAY_TOOL_SIGNATURES ==
  [ SecurityMCPTools___CheckSecurityServices |-> <<
      [name |-> "region", type |-> "string", required |-> FALSE,
       default |-> PyStr(<<"u","s","-","e","a","s","t","-","1">>)],
      [name |-> "services", type |-> "array", required |-> FALSE,
       default |-> PyList(<<PyStr(<<"g","u","a","r","d","d","u","t","y">>),
                          PyStr(<<"i","n","s","p","e","c","t","o","r">>),
                          PyStr(<<"a","c","c","e","s","s","a","n","a","l","y","z","e","r">>),
                          PyStr(<<"s","e","c","u","r","i","t","y","h","u","b">>),
                          PyStr(<<"t","r","u","s","t","e","d","a","d","v","i","s","o","r">>),
                          PyStr(<<"m","a","c","i","e">>)>>)],
      [name |-> "account_id", type |-> "string", required |-> FALSE,
       default |-> None],
      [name |-> "aws_profile", type |-> "string", required |-> FALSE,
       default |-> PyStr(<<"d","e","f","a","u","l","t">>)],
      [name |-> "store_in_context", type |-> "boolean", required |-> FALSE,
       default |-> PyBool(TRUE)],
      [name |-> "debug", type |-> "boolean", required |-> FALSE,
       default |-> PyBool(TRUE)] >>,
    SecurityMCPTools___GetSecurityFindings |-> <<
      [name |-> "region", type |-> "string", required |-> FALSE,
       default |-> PyStr(<<"u","s","-","e","a","s","t","-","1">>)],
      [name |-> "service", type |-> "string", required |-> TRUE,
       default |-> None],
      [name |-> "max_findings", type |-> "integer", required |-> FALSE,
       default |-> PyInt(100)],
      [name |-> "severity_filter", type |-> "string", required |-> FALSE,
       default |-> None],
      [name |-> "aws_profile", type |-> "string", required |-> FALSE,
       default |-> PyStr(<<"d","e","f","a","u","l","t">>)],
      [name |-> "check_enabled", type |-> "boolean", required |-> FALSE,
       default |-> PyBool(TRUE)] >>,
    SecurityMCPTools___CheckStorageEncryption |-> <<
      [name |-> "region", type |-> "string", required |-> FALSE,
       default |-> PyStr(<<"u","s","-","e","a","s","t","-","1">>)],
      [name |-> "services", type |-> "array", required |-> FALSE,
       default |-> PyList(<<PyStr(<<"s","3">>),
                          PyStr(<<"e","b","s">>),
                          PyStr(<<"r","d","s">>),
                          PyStr(<<"d","y","n","a","m","o","d","b">>),
                          PyStr(<<"e","f","s">>),
                          PyStr(<<"e","l","a","s","t","i","c","a","c","h","e">>)>>)],
      [name |-> "include_unencrypted_only", type |-> "boolean", required |-> FALSE,
       default |-> PyBool(FALSE)],
      [name |-> "aws_profile", type |-> "string", required |-> FALSE,
       default |-> PyStr(<<"d","e","f","a","u","l","t">>)],
      [name |-> "store_in_context", type |-> "boolean", required |-> FALSE,
       default |-> PyBool(TRUE)] >>,
    SecurityMCPTools___CheckNetworkSecurity |-> <<
      [name |-> "region", type |-> "string", required |-> FALSE,
       default |-> PyStr(<<"u","s","-","e","a","s","t","-","1">>)],
      [name |-> "services", type |-> "array", required |-> FALSE,
       default |-> PyList(<<PyStr(<<"e","l","b">>),
                          PyStr(<<"v","p","c">>),
                          PyStr(<<"a","p","i","g","a","t","e","w","a","y">>),
                          PyStr(<<"c","l","o","u","d","f","r","o","n","t">>)>>)],
      [name |-> "include_non_compliant_only", type |-> "boolean", required |-> FALSE,
       default |-> PyBool(FALSE)],
      [name |-> "aws_profile", type |-> "string", required |-> FALSE,
       default |-> PyStr(<<"d","e","f","a","u","l","t">>)],
      [name |-> "store_in_context", type |-> "boolean", required |-> FALSE,
       default |-> PyBool(TRUE)] >>,
    SecurityMCPTools___ListServicesInRegion |-> <<
      [name |-> "region", type |-> "string", required |-> FALSE,
       default |-> PyStr(<<"u","s","-","e","a","s","t","-","1">>)],
      [name |-> "aws_profile", type |-> "string", required |-> FALSE,
       default |-> PyStr(<<"d","e","f","a","u","l","t">>)],
      [name |-> "store_in_context", type |-> "boolean", required |-> FALSE,
       default |-> PyBool(TRUE)] >>,
    SecurityMCPTools___GetStoredSecurityContext |-> <<
      [name |-> "region", type |-> "string", required |-> FALSE,
       default |-> PyStr(<<"u","s","-","e","a","s","t","-","1">>)],
      [name |-> "detailed", type |-> "boolean", required |-> FALSE,
       default |-> PyBool(FALSE)] >> ]

\* OPERATION_TO_TOOL_MAP naming a tool under a name the registry lacks
OPERATION_TO_TOOL_MAP_renamed_tool ==
  [ checkSecurityStatus |-> "SecurityMCPTools___CheckSecurityServices",
    getSecurityFindings |-> "SecurityMCPTools___GetSecurityFindings",
    checkStorageEncryption |-> "SecurityMCPTools___CheckStorageEncryption",
    checkNetworkSecurity |-> "SecurityMCPTools___CheckNetwork",
    listServicesInRegion |-> "SecurityMCPTools___ListServicesInRegion",
    getStoredContext |-> "SecurityMCPTools___GetStoredSecurityContext" ]

OPERATION_TO_TOOL_MAP ==
  [ checkSecurityStatus |-> "SecurityMCPTools___CheckSecurityServices",
    getSecurityFindings |-> "SecurityMCPTools___GetSecurityFindings",
    checkStorageEncryption |-> "SecurityMCPTools___CheckStorageEncryption",
    checkNetworkSecurity |-> "SecurityMCPTools___CheckNetworkSecurity",
    listServicesInRegion |-> "SecurityMCPTools___ListServicesInRegion",
    getStoredContext |-> "SecurityMCPTools___GetStoredSecurityContext" ]

PARAMETER_NAME_MAP ==
  [ SecurityMCPTools___CheckSecurityServices |->
      [ region |-> "region",
        service |-> "services",
        services |-> "services",
        accountId |-> "account_id",
        account_id |-> "account_id",
        awsProfile |-> "aws_profile",
        aws_profile |-> "aws_profile",
        storeInContext |-> "store_in_context",
        store_in_context |-> "store_in_context",
        debug |-> "debug" ],
    SecurityMCPTools___GetSecurityFindings |->
      [ region |-> "region",
        service |-> "service",
        maxFindings |-> "max_findings",
        max_findings |-> "max_findings",
        severityFilter |-> "severity_filter",
        severity_filter |-> "severity_filter",
        severity |-> "severity_filter",
        awsProfile |-> "aws_profile",
        aws_profile |-> "aws_profile",
        checkEnabled |-> "check_enabled",
        check_enabled |-> "check_enabled" ],
    SecurityMCPTools___CheckStorageEncryption |->
      [ region |-> "region",
        service |-> "services",
        services |-> "services",
        includeUnencryptedOnly |-> "include_unencrypted_only",
        include_unencrypted_only |-> "include_unencrypted_only",
        unencryptedOnly |-> "include_unencrypted_only",
        awsProfile |-> "aws_profile",
        aws_profile |-> "aws_profile",
        storeInContext |-> "store_in_context",
        store_in_context |-> "store_in_context" ],
    SecurityMCPTools___CheckNetworkSecurity |->
      [ region |-> "region",
        service |-> "services",
        services |-> "services",
        includeNonCompliantOnly |-> "include_non_compliant_only",
        include_non_compliant_only |-> "include_non_compliant_only",
        nonCompliantOnly |-> "include_non_compliant_only",
        awsProfile |-> "aws_profile",
        aws_profile |-> "aws_profile",
        storeInContext |-> "store_in_context",
        store_in_context |-> "store_in_context" ],
    SecurityMCPTools___ListServicesInRegion |->
      [ region |-> "region",
        awsProfile |-> "aws_profile",
        aws_profile |-> "aws_profile",
        storeInContext |-> "store_in_context",
        store_in_context |-> "store_in_context" ],
    SecurityMCPTools___GetStoredSecurityContext |->
      [ region |-> "region",
        detailed |-> "detailed" ] ]

---------------------------------------------------------------------------
(* dict operations on mapped_params, a sequence of <<name, value>> items *)

dict_keys(d) == {d[i][1] : i \in 1..Len(d)}

dict_get(d, k) == d[CHOOSE i \in 1..Len(d) : d[i][1] = k][2]

\* dict_set that keeps the value of an existing key, as d.setdefault(k, v)
dict_set_keeps_first(d, k, v) ==
  IF k \in dict_keys(d) THEN d ELSE Append(d, <<k, v>>)

\* d[k] = v: an existing key keeps its place, a new key is appended
dict_set(d, k, v) ==
  IF k \in dict_keys(d)
    THEN [i \in 1..Len(d) |-> IF d[i][1] = k THEN <<k, v>> ELSE d[i]]
    ELSE Append(d, <<k, v>>)

\* the dict as a function of its keys: Python's == on dicts ignores order
dict_map(d) == [k \in dict_keys(d) |-> dict_get(d, k)]

\* tool_sig['parameters'].get(name, {}).get('type', 'string')
expected_type(parameters, name) ==
  IF \E i \in 1..Len(parameters) : parameters[i].name = name
    THEN parameters[CHOOSE i \in 1..Len(parameters) :
                      parameters[i].name = name].type
    ELSE "string"

\* what map_parameters returns: (tool_name, mapped_params) ...
Return(tool_name, mapped_params) ==
  [raised |-> "", message |-> "", names |-> <<>>,
   tool_name |-> tool_name, mapped_params |-> mapped_params]

\* ... or the exception it raises, with the message's text and the names
\* the message lists
Raise(exc, message, names) ==
  [raised |-> exc, message |-> message, names |-> names,
   tool_name |-> "", mapped_params |-> <<>>]

---------------------------------------------------------------------------
(* templates/complete-parameter-mapper.py: map_parameters *)

\* "Start with default values": every non-None default, in signature order
RECURSIVE seed_defaults(_)
seed_defaults(parameters) ==
  IF parameters = <<>> THEN <<>>
  ELSE LET p == parameters[Len(parameters)]
           rest == seed_defaults(SubSeq(parameters, 1, Len(parameters) - 1))
       IN  IF p.default # None THEN Append(rest, <<p.name, p.default>>)
                               ELSE rest

\* coerce_array splitting on commas without trimming the segments
coerce_array_untrimmed(bedrock_value) ==
  IF bedrock_value.t = "list" THEN Returned(bedrock_value)
  ELSE IF bedrock_value.t = "str" THEN
    IF \E i \in 1..Len(bedrock_value.s) : bedrock_value.s[i] = ","
      THEN LET parts == split(bedrock_value.s, ",")
           IN  Returned(PyList([i \in 1..Len(parts) |-> PyStr(parts[i])]))
      ELSE Returned(PyList(<<bedrock_value>>))
  ELSE Returned(PyList(<<str(bedrock_value)>>))

\* coerce_array leaving a string without a comma unwrapped
coerce_array_unwrapped(bedrock_value) ==
  IF bedrock_value.t = "list" THEN Returned(bedrock_value)
  ELSE IF bedrock_value.t = "str" THEN
    IF \E i \in 1..Len(bedrock_value.s) : bedrock_value.s[i] = ","
      THEN LET parts == split(bedrock_value.s, ",")
           IN  Returned(PyList([i \in 1..Len(parts) |->
                                  PyStr(strip(parts[i]))]))
      ELSE Returned(bedrock_value)
  ELSE Returned(PyList(<<str(bedrock_value)>>))

\* expected_type == 'array'
coerce_array(bedrock_value) ==
  IF bedrock_value.t = "list" THEN Returned(bedrock_value)
  ELSE IF bedrock_value.t = "str" THEN
    IF \E i \in 1..Len(bedrock_value.s) : bedrock_value.s[i] = ","
      THEN LET parts == split(bedrock_value.s, ",")
           IN  Returned(PyList([i \in 1..Len(parts) |-> PyStr(strip(parts[i]))]))
      ELSE Returned(PyList(<<bedrock_value>>))
  ELSE Returned(PyList(<<str(bedrock_value)>>))

\* coerce_integer without the conversion: the value is stored as received
coerce_integer_unconverted(bedrock_value) == Returned(bedrock_value)

\* expected_type == 'integer'
coerce_integer(bedrock_value) == int(bedrock_value)

\* coerce_boolean comparing the string as written, without lower()
coerce_boolean_case_sensitive(bedrock_value) ==
  IF bedrock_value.t = "bool" THEN Returned(bedrock_value)
  ELSE IF bedrock_value.t = "str" THEN
    Returned(PyBool(bedrock_value.s \in
                      {<<"t","r","u","e">>, <<"1">>, <<"y","e","s">>,
                       <<"o","n">>}))
  ELSE Returned(PyBool(truthy(bedrock_value)))

\* expected_type == 'boolean'
coerce_boolean(bedrock_value) ==
  IF bedrock_value.t = "bool" THEN Returned(bedrock_value)
  ELSE IF bedrock_value.t = "str" THEN
    Returned(PyBool(lower(bedrock_value.s) \in
                    {<<"t","r","u","e">>, <<"1">>, <<"y","e","s">>, <<"o","n">>}))
  ELSE Returned(PyBool(truthy(bedrock_value)))

\* coerce_string storing the value as it came
coerce_string_unconverted(bedrock_value) == Returned(bedrock_value)

\* else: string
coerce_string(bedrock_value) == Returned(str(bedrock_value))

\* "Convert value to expected type"
coerce(type, bedrock_value) ==
  CASE type = "array"   -> coerce_array(bedrock_value)
    [] type = "integer" -> coerce_integer(bedrock_value)
    [] type = "boolean" -> coerce_boolean(bedrock_value)
    [] OTHER            -> coerce_string(bedrock_value)

\* gateway_name_of passing an unknown spelling through, as
\* param_map.get(bedrock_name, bedrock_name) does
gateway_name_of_passthrough(param_map, bedrock_name) ==
  IF bedrock_name \in DOMAIN param_map THEN param_map[bedrock_name]
                                       ELSE bedrock_name

\* param_map.get(bedrock_name): the canonical name, "" for None
gateway_name_of(param_map, bedrock_name) ==
  IF bedrock_name \in DOMAIN param_map THEN param_map[bedrock_name] ELSE ""

\* map_one storing the unconverted value when the conversion fails
map_one_keeps_raw(parameters, param_map, mapped_params, bedrock_param) ==
  LET bedrock_name  == bedrock_param.name
      bedrock_value == bedrock_param.value
      gateway_name  == IF bedrock_name \in DOMAIN param_map
                         THEN param_map[bedrock_name] ELSE ""
      converted     == coerce(expected_type(parameters, gateway_name),
                              bedrock_value)
  IN  IF bedrock_name = "" \/ bedrock_value = None THEN mapped_params
      ELSE IF gateway_name = "" THEN mapped_params
      ELSE IF converted.raised \in {"ValueError", "TypeError"}
        THEN dict_set(mapped_params, gateway_name, bedrock_value)
      ELSE dict_set(mapped_params, gateway_name, converted.value)

\* one iteration of "for bedrock_param in bedrock_parameters"
map_one(parameters, param_map, mapped_params, bedrock_param) ==
  LET bedrock_name  == bedrock_param.name
      bedrock_value == bedrock_param.value
      gateway_name  == gateway_name_of(param_map, bedrock_name)
      converted     == coerce(expected_type(parameters, gateway_name),
                              bedrock_value)
  IN  IF bedrock_name = "" \/ bedrock_value = None THEN mapped_params
      ELSE IF gateway_name = "" THEN mapped_params
      ELSE IF converted.raised \in {"ValueError", "TypeError"}
        THEN mapped_params
      ELSE dict_set(mapped_params, gateway_name, converted.value)

\* the loop "Map provided parameters", in input order
RECURSIVE map_provided(_, _, _, _)
map_provided(parameters, param_map, mapped_params, remaining) ==
  IF remaining = <<>> THEN mapped_params
  ELSE map_provided(parameters, param_map,
                    map_one(parameters, param_map, mapped_params,
                            Head(remaining)),
                    Tail(remaining))

\* missing_params without the test of the required flag
missing_params_ignoring_required(parameters, mapped_params) ==
  SelectSeq(parameters,
            LAMBDA p : p.name \notin dict_keys(mapped_params)
                       \/ dict_get(mapped_params, p.name) = None)

\* "Validate required parameters": the missing names, in signature order
missing_params(parameters, mapped_params) ==
  SelectSeq([i \in 1..Len(parameters) |-> parameters[i]],
            LAMBDA p : p.required
                       /\ (p.name \notin dict_keys(mapped_params)
                           \/ dict_get(mapped_params, p.name) = None))

\* "Remove None values"
remove_none(mapped_params) ==
  SelectSeq(mapped_params, LAMBDA item : item[2] # None)

\* tool_name_of with a fallback tool for an operation id that is not mapped
tool_name_of_with_fallback(op) ==
  IF op \in DOMAIN OPERATION_TO_TOOL_MAP THEN OPERATION_TO_TOOL_MAP[op]
  ELSE "SecurityMCPTools___" \o op

\* OPERATION_TO_TOOL_MAP.get(operation_id): the tool name, "" for None
tool_name_of(op) ==
  IF op \in DOMAIN OPERATION_TO_TOOL_MAP THEN OPERATION_TO_TOOL_MAP[op]
                                         ELSE ""

map_parameters(op, inbound) ==
  LET tool_name == tool_name_of(op)
  IN
  IF tool_name = "" THEN Raise("ValueError", "Unknown operation", <<op>>)
  ELSE IF tool_name \notin DOMAIN GATEWAY_TOOL_SIGNATURES
    THEN Raise("ValueError", "Unknown tool", <<tool_name>>)
  ELSE
    LET parameters == GATEWAY_TOOL_SIGNATURES[tool_name]
        param_map  == IF tool_name \in DOMAIN PARAMETER_NAME_MAP
                        THEN PARAMETER_NAME_MAP[tool_name] ELSE <<>>
        mapped     == map_provided(parameters, param_map,
                                   seed_defaults(parameters), inbound)
        missing    == missing_params(parameters, mapped)
    IN  IF missing # <<>>
          THEN Raise("ValueError", "Missing required parameters",
                     [i \in 1..Len(missing) |-> missing[i].name])
          ELSE Return(tool_name, remove_none(mapped))

---------------------------------------------------------------------------
(* templates/parameter-mapper.py: the static tables *)

\* the template's registry with limit required as well, keeping its default
template_GATEWAY_TOOL_SIGNATURES_limit_required ==
  [ SecurityMCPTools___CheckSecurityServices |-> <<
      [name |-> "region", type |-> "string", required |-> TRUE,
       default |-> PyStr(<<"u","s","-","e","a","s","t","-","1">>)],
      [name |-> "service_names", type |-> "array", required |-> FALSE,
       default |-> PyList(<<>>)] >>,
    SecurityMCPTools___GetSecurityFindings |-> <<
      [name |-> "region", type |-> "string", required |-> TRUE,
       default |-> PyStr(<<"u","s","-","e","a","s","t","-","1">>)],
      [name |-> "severity", type |-> "string", required |-> FALSE,
       default |-> PyStr(<<"A","L","L">>)],
      [name |-> "service", type |-> "string", required |-> FALSE,
       default |-> None],
      [name |-> "limit", type |-> "integer", required |-> TRUE,
       default |-> PyInt(100)] >>,
    SecurityMCPTools___CheckStorageEncryption |-> <<
      [name |-> "region", type |-> "string", required |-> TRUE,
       default |-> PyStr(<<"u","s","-","e","a","s","t","-","1">>)],
      [name |-> "service_type", type |-> "string", required |-> FALSE,
       default |-> PyStr(<<"A","L","L">>)] >> ]

template_GATEWAY_TOOL_SIGNATURES ==
  [ SecurityMCPTools___CheckSecurityServices |-> <<
      [name |-> "region", type |-> "string", required |-> TRUE,
       default |-> PyStr(<<"u","s","-","e","a","s","t","-","1">>)],
      [name |-> "service_names", type |-> "array", required |-> FALSE,
       default |-> PyList(<<>>)] >>,
    SecurityMCPTools___GetSecurityFindings |-> <<
      [name |-> "region", type |-> "string", required |-> TRUE,
       default |-> PyStr(<<"u","s","-","e","a","s","t","-","1">>)],
      [name |-> "severity", type |-> "string", required |-> FALSE,
       default |-> PyStr(<<"A","L","L">>)],
      [name |-> "service", type |-> "string", required |-> FALSE,
       default |-> None],
      [name |-> "limit", type |-> "integer", required |-> FALSE,
       default |-> PyInt(100)] >>,
    SecurityMCPTools___CheckStorageEncryption |-> <<
      [name |-> "region", type |-> "string", required |-> TRUE,
       default |-> PyStr(<<"u","s","-","e","a","s","t","-","1">>)],
      [name |-> "service_type", type |-> "string", required |-> FALSE,
       default |-> PyStr(<<"A","L","L">>)] >> ]

template_OPERATION_TO_TOOL_MAP ==
  [ checkSecurityStatus |-> "SecurityMCPTools___CheckSecurityServices",
    getSecurityFindings |-> "SecurityMCPTools___GetSecurityFindings",
    checkStorageEncryption |-> "SecurityMCPTools___CheckStorageEncryption" ]

\* the template's alias map with an alias whose target no signature declares
template_PARAMETER_NAME_MAP_stray_target ==
  [ SecurityMCPTools___CheckSecurityServices |->
      [ region |-> "region",
        service |-> "service_names",
        services |-> "service_names" ],
    SecurityMCPTools___GetSecurityFindings |->
      [ region |-> "region",
        severity |-> "severity_filter",
        service |-> "service",
        limit |-> "limit" ],
    SecurityMCPTools___CheckStorageEncryption |->
      [ region |-> "region",
        serviceType |-> "service_type",
        service_type |-> "service_type" ] ]

template_PARAMETER_NAME_MAP ==
  [ SecurityMCPTools___CheckSecurityServices |->
      [ region |-> "region",
        service |-> "service_names",
        services |-> "service_names" ],
    SecurityMCPTools___GetSecurityFindings |->
      [ region |-> "region",
        severity |-> "severity",
        service |-> "service",
        limit |-> "limit" ],
    SecurityMCPTools___CheckStorageEncryption |->
      [ region |-> "region",
        serviceType |-> "service_type",
        service_type |-> "service_type" ] ]

---------------------------------------------------------------------------
(* templates/parameter-mapper.py: map_parameters *)

\* template_seed_defaults seeding a None default too
RECURSIVE template_seed_defaults_with_none(_)
template_seed_defaults_with_none(parameters) ==
  IF parameters = <<>> THEN <<>>
  ELSE Append(template_seed_defaults_with_none(
                SubSeq(parameters, 1, Len(parameters) - 1)),
              <<parameters[Len(parameters)].name,
                parameters[Len(parameters)].default>>)

\* "Start with default values"
RECURSIVE template_seed_defaults(_)
template_seed_defaults(parameters) ==
  IF parameters = <<>> THEN <<>>
  ELSE LET p == parameters[Len(parameters)]
           rest == template_seed_defaults(
                     SubSeq(parameters, 1, Len(parameters) - 1))
       IN  IF p.default # None THEN Append(rest, <<p.name, p.default>>)
                               ELSE rest

\* expected_type == 'array'
template_coerce_array(bedrock_value) ==
  IF bedrock_value.t = "list" THEN Returned(bedrock_value)
  ELSE Returned(PyList(<<bedrock_value>>))

\* expected_type == 'boolean'
template_coerce_boolean(bedrock_value) ==
  IF bedrock_value.t = "str" THEN
    Returned(PyBool(lower(bedrock_value.s) \in
                    {<<"t","r","u","e">>, <<"1">>, <<"y","e","s">>}))
  ELSE Returned(PyBool(truthy(bedrock_value)))

\* "Convert value to expected type"
template_coerce(type, bedrock_value) ==
  CASE type = "array"   -> template_coerce_array(bedrock_value)
    [] type = "integer" -> int(bedrock_value)
    [] type = "boolean" -> template_coerce_boolean(bedrock_value)
    [] OTHER            -> Returned(str(bedrock_value))

\* param_map.get(bedrock_name, bedrock_name)
template_gateway_name_of(param_map, bedrock_name) ==
  IF bedrock_name \in DOMAIN param_map THEN param_map[bedrock_name]
                                       ELSE bedrock_name

\* the loop "Map provided parameters"; an exception of int() ends it.
\* The state is [raised, mapped_params].
RECURSIVE template_map_provided(_, _, _, _)
template_map_provided(parameters, param_map, mapped_params, remaining) ==
  IF remaining = <<>>
    THEN [raised |-> "", mapped_params |-> mapped_params]
  ELSE
    LET bedrock_param == Head(remaining)
        gateway_name  == template_gateway_name_of(param_map,
                                                  bedrock_param.name)
        converted     == template_coerce(
                           expected_type(parameters, gateway_name),
                           bedrock_param.value)
    IN  IF converted.raised # ""
          THEN [raised |-> converted.raised, mapped_params |-> mapped_params]
          ELSE template_map_provided(
                 parameters, param_map,
                 dict_set(mapped_params, gateway_name, converted.value),
                 Tail(remaining))

\* "Validate required parameters": the first one absent raises
template_missing_params(parameters, mapped_params) ==
  LET absent == SelectSeq(parameters,
                          LAMBDA p : p.required
                                     /\ p.name \notin dict_keys(mapped_params))
  IN  IF absent = <<>> THEN <<>> ELSE <<absent[1].name>>

\* OPERATION_TO_TOOL_MAP.get(operation_id): the tool name, "" for None
template_tool_name_of(op) ==
  IF op \in DOMAIN template_OPERATION_TO_TOOL_MAP
    THEN template_OPERATION_TO_TOOL_MAP[op]
    ELSE ""

template_map_parameters(op, inbound) ==
  LET tool_name == template_tool_name_of(op)
  IN
  IF tool_name = "" THEN Raise("ValueError", "Unknown operation", <<op>>)
  ELSE IF tool_name \notin DOMAIN template_GATEWAY_TOOL_SIGNATURES
    THEN Raise("ValueError", "Unknown tool", <<tool_name>>)
  ELSE
    LET parameters == template_GATEWAY_TOOL_SIGNATURES[tool_name]
        param_map  == IF tool_name \in DOMAIN template_PARAMETER_NAME_MAP
                        THEN template_PARAMETER_NAME_MAP[tool_name] ELSE <<>>
        looped     == template_map_provided(
                        parameters, param_map,
                        template_seed_defaults(parameters), inbound)
        missing    == template_missing_params(parameters,
                                              looped.mapped_params)
    IN  IF looped.raised # ""
          THEN Raise(looped.raised, "int()", <<>>)
        ELSE IF missing # <<>>
          THEN Raise("ValueError", "Missing required parameter", missing)
          ELSE Return(tool_name, looped.mapped_params)

---------------------------------------------------------------------------
(* The calls checked: every operation id below with every inbound list    *)
(* below, through either template.                                         *)

MaxInbound == 2

MaxStrLen == 3

BoundedSeq(S, n) == UNION {[1..k -> S] : k \in 0..n}

OperationIds == DOMAIN OPERATION_TO_TOOL_MAP \cup {"bogusOperation", ""}

\* characters that decide a branch of split(), strip() or int()
StringAlphabet == {"a", ",", " ", "1", "_", "-"}

\* the strings the boolean branch compares with, in several cases, and the
\* values of the source's test cases
LiteralStrings ==
  { <<"t","r","u","e">>, <<"T","R","U","E">>, <<"T","r","u","e">>, <<"y","e","s">>, <<"Y","E","S">>, <<"o","n">>, <<"O","n">>,
    <<"O","N">>, <<"f","a","l","s","e">>, <<"n","o">>, <<"o","f","f">>, <<"m","a","y","b","e">>, <<"0">>, <<" ","t","r","u","e">>,
    <<"5","0">>, <<"f","i","f","t","y">>, <<"e","c","2">>, <<"s","3">>, <<"s","3",",","e","b","s",",","r","d","s">>, <<"s","3",","," ","e","b","s"," ",",","r","d","s">>,
    <<"H","I","G","H">>, <<"u","s","-","w","e","s","t","-","2">>, <<"s","e","c","u","r","i","t","y","h","u","b">>, <<"g","u","a","r","d","d","u","t","y">> }

Strings == BoundedSeq(StringAlphabet, MaxStrLen) \cup LiteralStrings

Values ==
  {PyStr(s) : s \in Strings}
    \cup {PyInt(0), PyInt(5), PyInt(-1), PyBool(TRUE), PyBool(FALSE), None,
          PyList(<<>>), PyList(<<PyStr(<<"s","3">>)>>),
          PyList(<<PyStr(<<"s","3">>), PyStr(<<"e","b","s">>)>>)}

\* inbound spellings: aliases of the complete mapper and of the template,
\* one spelling neither knows, and the empty name
InboundNames ==
  {"region", "service", "services", "severity", "maxFindings", "limit",
   "debug", "unencryptedOnly", "bogusParam", ""}

\* a single parameter with any value
SingleInbound ==
  {<<[name |-> n, value |-> v]>> : n \in InboundNames, v \in Values}

\* several parameters, repeated names and aliases included
RepeatNames == {"service", "services", "maxFindings", "debug", "bogusParam"}

RepeatValues == {PyStr(<<"e","c","2">>), PyStr(<<"s","3",",","e","b","s">>), PyStr(<<"5","0">>), PyStr(<<"f","i","f","t","y">>)}

RepeatedInbound ==
  BoundedSeq({[name |-> n, value |-> v] : n \in RepeatNames,
                                           v \in RepeatValues},
             MaxInbound)

\* complete-parameter-mapper.py test_cases, parameter-mapper.py __main__
TestCaseInbound ==
  { << [name |-> "region", value |-> PyStr(<<"u","s","-","e","a","s","t","-","1">>)],
       [name |-> "service", value |-> PyStr(<<"g","u","a","r","d","d","u","t","y">>)],
       [name |-> "debug", value |-> PyStr(<<"t","r","u","e">>)] >>,
    << [name |-> "region", value |-> PyStr(<<"u","s","-","w","e","s","t","-","2">>)],
       [name |-> "service", value |-> PyStr(<<"s","e","c","u","r","i","t","y","h","u","b">>)],
       [name |-> "severity", value |-> PyStr(<<"H","I","G","H">>)],
       [name |-> "maxFindings", value |-> PyStr(<<"5","0">>)] >>,
    << [name |-> "region", value |-> PyStr(<<"e","u","-","w","e","s","t","-","1">>)],
       [name |-> "services", value |-> PyStr(<<"s","3",",","e","b","s",",","r","d","s">>)],
       [name |-> "unencryptedOnly", value |-> PyStr(<<"t","r","u","e">>)] >>,
    << [name |-> "region", value |-> PyStr(<<"a","p","-","s","o","u","t","h","e","a","s","t","-","1">>)],
       [name |-> "nonCompliantOnly", value |-> PyStr(<<"t","r","u","e">>)] >>,
    << [name |-> "region", value |-> PyStr(<<"u","s","-","e","a","s","t","-","1">>)],
       [name |-> "service", value |-> PyStr(<<"E","C","2">>)] >>,
    << [name |-> "region", value |-> PyStr(<<"u","s","-","w","e","s","t","-","2">>)],
       [name |-> "severity", value |-> PyStr(<<"H","I","G","H">>)],
       [name |-> "limit", value |-> PyStr(<<"5","0">>)] >>,
    << [name |-> "region", value |-> PyStr(<<"e","u","-","w","e","s","t","-","1">>)] >> }

\* the test case 'Get findings - with severity' without its service entry
FindingsWithoutService ==
  << [name |-> "region", value |-> PyStr(<<"u","s","-","w","e","s","t","-","2">>)],
     [name |-> "severity", value |-> PyStr(<<"H","I","G","H">>)],
     [name |-> "maxFindings", value |-> PyStr(<<"5","0">>)] >>

\* the same with a maxFindings that is no number
FindingsNotANumber ==
  << [name |-> "service", value |-> PyStr(<<"s","e","c","u","r","i","t","y","h","u","b">>)],
     [name |-> "maxFindings", value |-> PyStr(<<"f","i","f","t","y">>)] >>

InboundLists ==
  SingleInbound \cup RepeatedInbound \cup TestCaseInbound
    \cup {FindingsWithoutService, FindingsNotANumber}

---------------------------------------------------------------------------
(* The mapper as a state machine: a call is set up, then made. *)

GwIdle == [pc |-> "idle"]

LamIdle == [pc |-> "idle"]

WaitIdle == [pc |-> "idle"]

ValidationIdle == [pc |-> "idle"]

NotCalled == Raise("", "not called", <<>>)

InitMapper ==
  /\ mapper \in {"complete", "template"}
  /\ operation_id \in OperationIds
  /\ bedrock_parameters \in InboundLists
  /\ outcome = NotCalled
  /\ pc = "ready"
  /\ gw = GwIdle
  /\ heap = <<>>
  /\ invocations = <<>>
  /\ returned = <<>>
  /\ lam = LamIdle
  /\ wait = WaitIdle
  /\ validation = ValidationIdle

\* complete-parameter-mapper.py: map_parameters(operation_id, parameters)
CallComplete ==
  /\ pc = "ready"
  /\ mapper = "complete"
  /\ outcome' = map_parameters(operation_id, bedrock_parameters)
  /\ pc' = "done"
  /\ UNCHANGED <<mapper, operation_id, bedrock_parameters, gw,
               heap, invocations, returned, lam, wait, validation>>

\* parameter-mapper.py: map_parameters(operation_id, parameters)
CallTemplate ==
  /\ pc = "ready"
  /\ mapper = "template"
  /\ outcome' = template_map_parameters(operation_id, bedrock_parameters)
  /\ pc' = "done"
  /\ UNCHANGED <<mapper, operation_id, bedrock_parameters, gw,
               heap, invocations, returned, lam, wait, validation>>

NextMapper == CallComplete \/ CallTemplate

SpecMapper == InitMapper /\ [][NextMapper]_vars

---------------------------------------------------------------------------
(* What the properties below speak about *)

\* the call has been made through template m
Called(m) == pc = "done" /\ mapper = m

\* the operation map, signature registry and alias map of template m
OperationMap(m) ==
  IF m = "complete" THEN OPERATION_TO_TOOL_MAP
                    ELSE template_OPERATION_TO_TOOL_MAP

KnownOperation(m, op) == op \in DOMAIN OperationMap(m)

SignatureOf(m, op) ==
  IF m = "complete" THEN GATEWAY_TOOL_SIGNATURES[OPERATION_TO_TOOL_MAP[op]]
  ELSE template_GATEWAY_TOOL_SIGNATURES[template_OPERATION_TO_TOOL_MAP[op]]

AliasesOf(m, op) ==
  IF m = "complete" THEN PARAMETER_NAME_MAP[OPERATION_TO_TOOL_MAP[op]]
  ELSE template_PARAMETER_NAME_MAP[template_OPERATION_TO_TOOL_MAP[op]]

DeclaredNames(m, op) ==
  {SignatureOf(m, op)[i].name : i \in 1..Len(SignatureOf(m, op))}

Declared(m, op, g) ==
  SignatureOf(m, op)[CHOOSE i \in 1..Len(SignatureOf(m, op)) :
                       SignatureOf(m, op)[i].name = g]

\* the canonical name an inbound spelling stands for: "" when the complete
\* mapper has no alias for it; the template passes such a name through
Canonical(m, op, name) ==
  IF name \in DOMAIN AliasesOf(m, op) THEN AliasesOf(m, op)[name]
  ELSE IF m = "template" THEN name ELSE ""

DeclaredType(m, op, g) ==
  IF g \in DeclaredNames(m, op) THEN Declared(m, op, g).type ELSE "string"

\* the returned arguments as a mapping
Arguments == dict_map(outcome.mapped_params)

Positions == 1..Len(bedrock_parameters)

\* entry i reaches the conversion step: the complete mapper skips an empty
\* name, a null value and a spelling it has no alias for
Converted(m, op, i) ==
  LET e == bedrock_parameters[i]
  IN  m = "complete" =>
        e.name # "" /\ e.value # None /\ Canonical(m, op, e.name) # ""

\* entry i is converted to an integer parameter and is no integer
NotAnInteger(m, op, i) ==
  LET e == bedrock_parameters[i]
  IN  /\ Converted(m, op, i)
      /\ DeclaredType(m, op, Canonical(m, op, e.name)) = "integer"
      /\ \/ e.value.t \in {"none", "list", "dict"}
         \/ /\ e.value.t = "str"
            /\ LET body == strip(e.value.s)
                   mag  == IF body # <<>> /\ Head(body) \in {"+", "-"}
                             THEN Tail(body) ELSE body
               IN  ~is_int_literal(mag)

\* the inbound list without the entries at the positions in drop
Without(drop) ==
  LET keep == {i \in Positions : i \notin drop}
      F[k \in 0..Len(bedrock_parameters)] ==
        IF k = 0 THEN <<>>
        ELSE IF k \in keep THEN Append(F[k - 1], bedrock_parameters[k])
        ELSE F[k - 1]
  IN  F[Len(bedrock_parameters)]

---------------------------------------------------------------------------
(* C2 *)

FindingsWithService ==
  << [name |-> "region", value |-> PyStr(<<"u","s","-","w","e","s","t","-","2">>)],
     [name |-> "service", value |-> PyStr(<<"s","e","c","u","r","i","t","y","h","u","b">>)],
     [name |-> "severity", value |-> PyStr(<<"H","I","G","H">>)],
     [name |-> "maxFindings", value |-> PyStr(<<"5","0">>)] >>

FindingsArguments ==
  [ region          |-> PyStr(<<"u","s","-","w","e","s","t","-","2">>),
    severity_filter |-> PyStr(<<"H","I","G","H">>),
    max_findings    |-> PyInt(50),
    aws_profile     |-> PyStr(<<"d","e","f","a","u","l","t">>),
    check_enabled   |-> PyBool(TRUE) ]

\* C2 as claimed: getSecurityFindings with [region, severity, maxFindings]
\* and nothing else succeeds, resolves to the GetSecurityFindings tool and
\* returns exactly region, severity_filter, max_findings 50 and the two
\* defaults aws_profile and check_enabled.
C2_ScenarioSucceeds ==
  ( /\ Called("complete")
    /\ operation_id = "getSecurityFindings"
    /\ bedrock_parameters = FindingsWithoutService )
  => /\ outcome.raised = ""
     /\ outcome.tool_name = "SecurityMCPTools___GetSecurityFindings"
     /\ Arguments = FindingsArguments

\* C2 amended: that inbound list lacks the required parameter service and
\* the call fails naming it; with service = "securityhub" supplied too (the
\* source's own test case) the call succeeds, resolves to the
\* GetSecurityFindings tool and returns exactly the claimed arguments plus
\* service = "securityhub".
C2_ScenarioNeedsService ==
  /\ ( /\ Called("complete")
       /\ operation_id = "getSecurityFindings"
       /\ bedrock_parameters = FindingsWithoutService )
     => /\ outcome.raised = "ValueError"
        /\ outcome.message = "Missing required parameters"
        /\ outcome.names = <<"service">>
  /\ ( /\ Called("complete")
       /\ operation_id = "getSecurityFindings"
       /\ bedrock_parameters = FindingsWithService )
     => /\ outcome.raised = ""
        /\ outcome.tool_name = "SecurityMCPTools___GetSecurityFindings"
        /\ Arguments =
             [k \in DOMAIN FindingsArguments \cup {"service"} |->
                IF k = "service" THEN PyStr(<<"s","e","c","u","r","i","t","y","h","u","b">>)
                                 ELSE FindingsArguments[k]]

C2_Witness ==
  /\ Called("complete")
  /\ operation_id = "getSecurityFindings"
  /\ bedrock_parameters = FindingsWithService
  /\ outcome.raised = ""

---------------------------------------------------------------------------
(* C3 *)

\* C3 as claimed: a call with an inbound value that cannot be converted to
\* its declared integer type fails with a coercion error naming the
\* parameter and returns no result.
C3_CoercionErrorRaised ==
  \A i \in Positions :
    ( /\ pc = "done"
      /\ KnownOperation(mapper, operation_id)
      /\ NotAnInteger(mapper, operation_id, i) )
    => /\ outcome.raised # ""
       /\ outcome.message = "int()"

\* C3 amended: the complete mapper does not fail on such a value: it skips
\* the entry (with a warning), so the call ends as it would without the
\* entry and the parameter keeps its default or earlier value (max_findings
\* stays 100 for maxFindings = "fifty").  The template lets the exception of
\* int() through: the call returns no result, and the error does not name
\* the parameter.
C3_CoercionFailure ==
  /\ ( Called("complete") /\ KnownOperation("complete", operation_id) )
     => /\ outcome.message # "int()"
        /\ outcome =
             map_parameters(operation_id,
                            Without({i \in Positions :
                                       NotAnInteger("complete",
                                                    operation_id, i)}))
  /\ ( /\ Called("complete")
       /\ operation_id = "getSecurityFindings"
       /\ bedrock_parameters = FindingsNotANumber )
     => /\ outcome.raised = ""
        /\ Arguments["max_findings"] = PyInt(100)
  /\ ( /\ Called("template")
       /\ KnownOperation("template", operation_id)
       /\ \E i \in Positions : NotAnInteger("template", operation_id, i) )
     => /\ outcome.raised \in {"ValueError", "TypeError"}
        /\ outcome.message = "int()"
        /\ outcome.names = <<>>
        /\ outcome.mapped_params = <<>>

C3_Witness ==
  /\ Called("complete")
  /\ operation_id = "getSecurityFindings"
  /\ bedrock_parameters = FindingsNotANumber
  /\ outcome.raised = ""

---------------------------------------------------------------------------
(* C4 *)

\* C4: a call with an operation id that is no key of OPERATION_TO_TOOL_MAP
\* fails with the unknown-operation error, whatever the inbound list, and
\* returns neither a tool name nor arguments.
C4_UnknownOperationFails ==
  ( pc = "done" /\ ~KnownOperation(mapper, operation_id) )
  => /\ outcome.raised = "ValueError"
     /\ outcome.message = "Unknown operation"
     /\ outcome.names = <<operation_id>>
     /\ outcome.tool_name = ""
     /\ outcome.mapped_params = <<>>

C4_Witness ==
  /\ pc = "done"
  /\ operation_id = "bogusOperation"
  /\ bedrock_parameters # <<>>
  /\ outcome.message = "Unknown operation"

---------------------------------------------------------------------------
(* C5 *)

\* entry i is spelled in a way the alias map of the resolved tool lacks
NoAlias(m, op, i) == bedrock_parameters[i].name \notin DOMAIN AliasesOf(m, op)

\* what template m returns for the operation and an inbound list
MapWith(m, op, inbound) ==
  IF m = "complete" THEN map_parameters(op, inbound)
                    ELSE template_map_parameters(op, inbound)

---------------------------------------------------------------------------
(* C6 *)

\* the template's loop ends in an exception of int()
IntRaises(m, op) ==
  m = "template" /\ \E i \in Positions : NotAnInteger(m, op, i)

\* entry i stores a value under its canonical name
Stores(m, op, i) == Converted(m, op, i) /\ ~NotAnInteger(m, op, i)

\* the required parameters left unset by the defaults and the inbound list
RequiredUnset(m, op) ==
  {g \in DeclaredNames(m, op) :
     /\ Declared(m, op, g).required
     /\ Declared(m, op, g).default = None
     /\ ~\E i \in Positions :
          /\ Stores(m, op, i)
          /\ Canonical(m, op, bedrock_parameters[i].name) = g}

MissingRaised ==
  outcome.message \in {"Missing required parameters",
                       "Missing required parameter"}

\* C6: a call for a known operation fails with the missing-required error
\* exactly when, after the defaults and the inbound values, a required
\* parameter is unset, and the error lists exactly those parameters; with
\* an empty inbound list the call succeeds iff no required parameter lacks
\* a default.
C6_MissingRequired ==
  ( pc = "done" /\ KnownOperation(mapper, operation_id) )
  => /\ MissingRaised
          <=> ( /\ ~IntRaises(mapper, operation_id)
                /\ RequiredUnset(mapper, operation_id) # {} )
     /\ MissingRaised
          => /\ outcome.raised = "ValueError"
             /\ {outcome.names[k] : k \in 1..Len(outcome.names)}
                  = RequiredUnset(mapper, operation_id)
             /\ Len(outcome.names)
                  = Cardinality(RequiredUnset(mapper, operation_id))
     /\ bedrock_parameters = <<>>
          => ( outcome.raised = ""
                 <=> \A g \in DeclaredNames(mapper, operation_id) :
                       Declared(mapper, operation_id, g).required
                         => Declared(mapper, operation_id, g).default # None )

C6_Witness ==
  /\ Called("complete")
  /\ operation_id = "getSecurityFindings"
  /\ bedrock_parameters = <<>>
  /\ outcome.message = "Missing required parameters"
  /\ outcome.names = <<"service">>

---------------------------------------------------------------------------
(* C7 *)

Ec2 == PyStr(<<"e","c","2">>)

\* the operations whose tool has both spellings as aliases of "services"
ServicesAliased ==
  {op \in DOMAIN OPERATION_TO_TOOL_MAP :
     /\ {"service", "services"} \subseteq DOMAIN AliasesOf("complete", op)
     /\ AliasesOf("complete", op)["service"] = "services"
     /\ AliasesOf("complete", op)["services"] = "services"}

\* C7: for those operations (checkSecurityStatus, checkStorageEncryption,
\* checkNetworkSecurity) inbound [service = "ec2"] and [services = "ec2"]
\* give the same arguments, in which services is ["ec2"].
C7_AliasCollapse ==
  /\ ServicesAliased = {"checkSecurityStatus", "checkStorageEncryption",
                        "checkNetworkSecurity"}
  /\ ( /\ Called("complete")
       /\ operation_id \in ServicesAliased
       /\ bedrock_parameters \in {<<[name |-> "service", value |-> Ec2]>>,
                                  <<[name |-> "services", value |-> Ec2]>>} )
     => /\ outcome.raised = ""
        /\ Arguments["services"] = PyList(<<Ec2>>)
        /\ outcome = map_parameters(operation_id,
                                    <<[name |-> "service", value |-> Ec2]>>)
        /\ outcome = map_parameters(operation_id,
                                    <<[name |-> "services", value |-> Ec2]>>)

C7_Witness ==
  /\ Called("complete")
  /\ operation_id = "checkNetworkSecurity"
  /\ bedrock_parameters = <<[name |-> "service", value |-> Ec2]>>
  /\ outcome.raised = ""
  /\ Arguments["services"] = PyList(<<Ec2>>)

---------------------------------------------------------------------------
(* C8 *)

SetMin(S) == CHOOSE x \in S : \A y \in S : x <= y

SetMax(S) == CHOOSE x \in S : \A y \in S : y <= x

\* s without its leading and trailing whitespace
Trimmed(s) ==
  LET solid == {i \in 1..Len(s) : s[i] \notin Whitespace}
  IN  IF solid = {} THEN <<>> ELSE SubSeq(s, SetMin(solid), SetMax(solid))

\* the segments of s between its commas, each trimmed
TrimmedSegments(s) ==
  LET cuts   == {i \in 1..Len(s) : s[i] = ","} \cup {0, Len(s) + 1}
      cut(j) == CHOOSE c \in cuts : Cardinality({d \in cuts : d < c}) = j - 1
  IN  [j \in 1..(Cardinality(cuts) - 1) |->
         PyStr(Trimmed(SubSeq(s, cut(j) + 1, cut(j + 1) - 1)))]

HasComma(s) == \E i \in 1..Len(s) : s[i] = ","

\* the call has one inbound entry, converted to an array parameter
OneArrayEntry(m) ==
  /\ Called(m)
  /\ KnownOperation(m, operation_id)
  /\ Len(bedrock_parameters) = 1
  /\ Converted(m, operation_id, 1)
  /\ DeclaredType(m, operation_id,
                  Canonical(m, operation_id, bedrock_parameters[1].name))
       = "array"

\* the value returned for the one entry's parameter
OneResult(m) ==
  Arguments[Canonical(m, operation_id, bedrock_parameters[1].name)]

\* C8 as claimed, of both templates: a sequence is used as-is, a string
\* with a comma is split on commas and each segment trimmed, any other
\* scalar is wrapped unchanged in a one-element sequence.
C8_ArrayCoercionUnchanged ==
  \A m \in {"complete", "template"} :
    OneArrayEntry(m)
    => LET v == bedrock_parameters[1].value
       IN  /\ outcome.raised = ""
           /\ OneResult(m) =
                IF v.t = "list" THEN v
                ELSE IF v.t = "str" /\ HasComma(v.s)
                  THEN PyList(TrimmedSegments(v.s))
                ELSE PyList(<<v>>)

\* the text str() gives for a scalar that is no string
ScalarText(v, text) ==
  CASE v.t = "bool" -> text = (IF v.b THEN <<"T","r","u","e">> ELSE <<"F","a","l","s","e">>)
    [] v.t = "int"  -> /\ text # <<>>
                       /\ \A i \in 1..Len(text) :
                            IsDigit(text[i]) \/ (i = 1 /\ text[i] = "-")
                       /\ Len(text) > 1 => text[1] # "0"
                       /\ int(PyStr(text)) = Returned(v)
    [] OTHER        -> FALSE

\* C8 amended.  Complete mapper: a sequence is used as-is; a string with a
\* comma is split on commas and each segment trimmed; a string without one
\* is wrapped unchanged; any other scalar is first turned into its text by
\* str() and then wrapped (5 gives ["5"], True gives ["True"]).  Template:
\* a sequence is used as-is and every other value, a string with commas
\* included, is wrapped unchanged.
C8_ArrayCoercion ==
  /\ OneArrayEntry("complete")
     => LET v == bedrock_parameters[1].value
            r == OneResult("complete")
        IN  /\ outcome.raised = ""
            /\ v.t = "list" => r = v
            /\ (v.t = "str" /\ HasComma(v.s))
                 => r = PyList(TrimmedSegments(v.s))
            /\ (v.t = "str" /\ ~HasComma(v.s)) => r = PyList(<<v>>)
            /\ v.t \notin {"list", "str"}
                 => /\ r.t = "list" /\ Len(r.l) = 1 /\ r.l[1].t = "str"
                    /\ ScalarText(v, r.l[1].s)
            /\ v = PyStr(<<"s","3",",","e","b","s",",","r","d","s">>)
                 => r = PyList(<<PyStr(<<"s","3">>), PyStr(<<"e","b","s">>),
                                 PyStr(<<"r","d","s">>)>>)
            /\ v = PyStr(<<"s","3">>) => r = PyList(<<PyStr(<<"s","3">>)>>)
  /\ OneArrayEntry("template")
     => LET v == bedrock_parameters[1].value
        IN  /\ outcome.raised = ""
            /\ OneResult("template") = IF v.t = "list" THEN v
                                                      ELSE PyList(<<v>>)

C8_Witness ==
  /\ OneArrayEntry("complete")
  /\ operation_id = "checkStorageEncryption"
  /\ bedrock_parameters[1].value = PyStr(<<"s","3",","," ","e","b","s"," ",",","r","d","s">>)
  /\ OneResult("complete")
       = PyList(<<PyStr(<<"s","3">>), PyStr(<<"e","b","s">>), PyStr(<<"r","d","s">>)>>)

---------------------------------------------------------------------------
(* C9 *)

\* s is lit in some mix of upper and lower case; lit is in lower case
SameIgnoringCase(s, lit) ==
  /\ Len(s) = Len(lit)
  /\ \A i \in 1..Len(s) :
       \/ s[i] = lit[i]
       \/ \E k \in 1..26 : LowerChars[k] = lit[i] /\ UpperChars[k] = s[i]

TrueLiterals == {<<"t","r","u","e">>, <<"1">>, <<"y","e","s">>, <<"o","n">>}

\* the call has one inbound entry, converted to a boolean parameter
OneBooleanEntry(m) ==
  /\ Called(m)
  /\ KnownOperation(m, operation_id)
  /\ Len(bedrock_parameters) = 1
  /\ Converted(m, operation_id, 1)
  /\ DeclaredType(m, operation_id,
                  Canonical(m, operation_id, bedrock_parameters[1].name))
       = "boolean"

\* C9: converted to a boolean parameter, a boolean is kept; a string gives
\* True iff it is "true", "1", "yes" or "on" in any case, and False
\* otherwise, without an error; any other value gives its truthiness.
C9_BooleanCoercion ==
  \A m \in {"complete", "template"} :
    OneBooleanEntry(m)
    => LET v == bedrock_parameters[1].value
       IN  /\ outcome.raised = ""
           /\ OneResult(m) =
                CASE v.t = "bool" -> v
                  [] v.t = "str"  ->
                       PyBool(\E lit \in TrueLiterals :
                                SameIgnoringCase(v.s, lit))
                  [] v.t = "int"  -> PyBool(v.n # 0)
                  [] v.t = "list" -> PyBool(v.l # <<>>)

C9_Witness ==
  /\ OneBooleanEntry("complete")
  /\ bedrock_parameters[1].name = "debug"
  /\ bedrock_parameters[1].value = PyStr(<<"O","n">>)
  /\ OneResult("complete") = PyBool(TRUE)

---------------------------------------------------------------------------
(* C10 *)

\* the positions of the inbound entries that stand for canonical name g
EntriesFor(g) ==
  {i \in Positions :
     /\ bedrock_parameters[i].name # ""
     /\ bedrock_parameters[i].value # None
     /\ Canonical("complete", operation_id, bedrock_parameters[i].name) = g}

---------------------------------------------------------------------------
(* templates/gateway-proxy-lambda-fixed.py *)

\* d.get(key, default) and "key in d" for a dict value
py_has(d, key) == \E i \in 1..Len(d.d) : d.d[i][1] = key

py_get(d, key, default) ==
  IF py_has(d, key)
    THEN d.d[CHOOSE i \in 1..Len(d.d) : d.d[i][1] = key][2]
    ELSE default

\* d[key] = value
py_set(d, key, value) ==
  IF py_has(d, key)
    THEN PyDict([i \in 1..Len(d.d) |->
                   IF d.d[i][1] = key THEN <<key, value>> ELSE d.d[i]])
    ELSE PyDict(Append(d.d, <<key, value>>))

\* the characters of a JSON string literal: quote, backslash and newline
\* are escaped (the other characters modelled are printable ASCII)
RECURSIVE json_escape(_)
json_escape(s) ==
  IF s = <<>> THEN <<>>
  ELSE (CASE Head(s) = "\"" -> <<"\\", "\"">>
          [] Head(s) = "\\" -> <<"\\", "\\">>
          [] Head(s) = "\n" -> <<"\\", "n">>
          [] OTHER          -> <<Head(s)>>) \o json_escape(Tail(s))

\* the text json.dumps(x) returns
RECURSIVE json_text(_)
json_text(x) ==
  CASE x.t = "none" -> <<"n","u","l","l">>
    [] x.t = "bool" -> IF x.b THEN <<"t","r","u","e">> ELSE <<"f","a","l","s","e">>
    [] x.t = "int"  -> int_str(x.n)
    [] x.t = "str"  -> <<"\"">> \o json_escape(x.s) \o <<"\"">>
    [] x.t = "list" ->
         <<"[">> \o join([i \in 1..Len(x.l) |-> json_text(x.l[i])],
                         <<",", " ">>) \o <<"]">>
    [] x.t = "dict" ->
         <<"{">> \o join([i \in 1..Len(x.d) |->
                            <<"\"">> \o json_escape(x.d[i][1]) \o <<"\"">>
                              \o <<":", " ">> \o json_text(x.d[i][2])],
                         <<",", " ">>) \o <<"}">>

\* json.dumps(x): a str
json_dumps(x) == PyStr(json_text(x))

\* type(x).__name__
type_name(x) ==
  CASE x.t = "none" -> <<"N","o","n","e","T","y","p","e">>
    [] x.t = "str"  -> <<"s","t","r">>
    [] x.t = "int"  -> <<"i","n","t">>
    [] x.t = "bool" -> <<"b","o","o","l">>
    [] x.t = "list" -> <<"l","i","s","t">>
    [] x.t = "dict" -> <<"d","i","c","t">>

\* an exception with the text str(e) gives
Throw(exc, text) == [raised |-> exc, value |-> PyStr(text)]

\* event.get(key, ''): the event is a function of the keys it has
event_get(event, key) ==
  IF key \in DOMAIN event THEN event[key] ELSE PyStr(<<>>)

\* the envelope both response functions build
envelope(event, status, body) ==
  [ messageVersion |-> PyStr(<<"1",".","0">>),
    response |->
      [ actionGroup    |-> event_get(event, "actionGroup"),
        apiPath        |-> event_get(event, "apiPath"),
        httpMethod     |-> event_get(event, "httpMethod"),
        httpStatusCode |-> PyInt(status),
        responseBody   |->
          [ct \in {"application/json"} |-> [body |-> body]] ] ]

\* success_response returning the data itself as the body
success_response_unserialized(event, data) == envelope(event, 200, data)

success_response(event, data) == envelope(event, 200, json_dumps(data))

\* error_response answering with the status of a success
error_response_with_status_200(event, error_msg) ==
  envelope(event, 200, json_dumps(PyDict(<< <<<<"e","r","r","o","r">>, error_msg>> >>)))

error_response(event, error_msg) ==
  envelope(event, 500, json_dumps(PyDict(<< <<<<"e","r","r","o","r">>, error_msg>> >>)))

\* "Convert to MCP format": one parameter of the loop
convert_param(mcp_params, param) ==
  IF param.t # "dict"
    THEN Throw("AttributeError",
               <<"'">> \o type_name(param)
                 \o <<"'"," ","o","b","j","e","c","t"," ","h","a","s"," ","n","o"," ","a","t","t","r","i","b","u","t","e"," ","'","g","e","t","'">>)
  ELSE
    LET param_name  == py_get(param, <<"n","a","m","e">>, None)
        param_value == py_get(param, <<"v","a","l","u","e">>, None)
    IN  IF param_name = PyStr(<<"r","e","g","i","o","n">>)
          THEN Returned(py_set(mcp_params, <<"r","e","g","i","o","n">>, param_value))
        ELSE IF param_name = PyStr(<<"s","e","v","e","r","i","t","y">>)
          THEN Returned(py_set(mcp_params, <<"s","e","v","e","r","i","t","y","_","f","i","l","t","e","r">>, param_value))
        ELSE IF param_name = PyStr(<<"s","e","r","v","i","c","e">>)
          THEN Returned(py_set(mcp_params, <<"s","e","r","v","i","c","e","s">>,
                               PyList(<<param_value>>)))
        ELSE Returned(mcp_params)

\* "for param in parameters"
RECURSIVE convert_params(_, _)
convert_params(mcp_params, parameters) ==
  IF parameters = <<>> THEN Returned(mcp_params)
  ELSE LET one == convert_param(mcp_params, Head(parameters))
       IN  IF one.raised # "" THEN one
           ELSE convert_params(one.value, Tail(parameters))

\* parameters = event.get('parameters', []) and the loop over it
mcp_params_of(event) ==
  LET parameters == IF "parameters" \in DOMAIN event
                      THEN event["parameters"] ELSE PyList(<<>>)
  IN  IF parameters.t = "list"
        THEN convert_params(PyDict(<<>>), parameters.l)
      ELSE Throw("TypeError",
                 <<"'">> \o type_name(parameters)
                   \o <<"'"," ","o","b","j","e","c","t"," ","i","s"," ","n","o","t"," ","i","t","e","r","a","b","l","e">>)

tool_name_map ==
  << <<<<"g","e","t","_","s","e","c","u","r","i","t","y","_","s","t","a","t","u","s">>,
       <<"S","e","c","u","r","i","t","y","M","C","P","T","o","o","l","s","_","_","_","C","h","e","c","k","S","e","c","u","r","i","t","y","S","e","r","v","i","c","e","s">>>>,
     <<<<"g","e","t","_","s","e","c","u","r","i","t","y","_","f","i","n","d","i","n","g","s">>,
       <<"S","e","c","u","r","i","t","y","M","C","P","T","o","o","l","s","_","_","_","G","e","t","S","e","c","u","r","i","t","y","F","i","n","d","i","n","g","s">>>>,
     <<<<"c","h","e","c","k","_","s","t","o","r","a","g","e","_","e","n","c","r","y","p","t","i","o","n">>,
       <<"S","e","c","u","r","i","t","y","M","C","P","T","o","o","l","s","_","_","_","C","h","e","c","k","S","t","o","r","a","g","e","E","n","c","r","y","p","t","i","o","n">>>>,
     <<<<"l","i","s","t","_","s","e","r","v","i","c","e","s","_","i","n","_","r","e","g","i","o","n">>,
       <<"S","e","c","u","r","i","t","y","M","C","P","T","o","o","l","s","_","_","_","L","i","s","t","S","e","r","v","i","c","e","s","I","n","R","e","g","i","o","n">>>>,
     <<<<"c","h","e","c","k","_","n","e","t","w","o","r","k","_","s","e","c","u","r","i","t","y">>,
       <<"S","e","c","u","r","i","t","y","M","C","P","T","o","o","l","s","_","_","_","C","h","e","c","k","N","e","t","w","o","r","k","S","e","c","u","r","i","t","y">>>> >>

\* tool_name_map[operation_id]: an operation id the map lacks is rejected
mcp_tool_name_of_rejecting_unknown(op) ==
  IF op.t \in {"list", "dict"}
    THEN Throw("TypeError",
               <<"u","n","h","a","s","h","a","b","l","e"," ","t","y","p","e",":"," ","'">> \o type_name(op) \o <<"'">>)
  ELSE IF /\ op.t = "str"
          /\ \E i \in 1..Len(tool_name_map) : tool_name_map[i][1] = op.s
    THEN Returned(PyStr(tool_name_map[
                          CHOOSE i \in 1..Len(tool_name_map) :
                            tool_name_map[i][1] = op.s][2]))
  ELSE Throw("KeyError", repr(op))

\* tool_name_map.get(operation_id, f'SecurityMCPTools___{operation_id}')
mcp_tool_name_of(op) ==
  IF op.t \in {"list", "dict"}
    THEN Throw("TypeError",
               <<"u","n","h","a","s","h","a","b","l","e"," ","t","y","p","e",":"," ","'">> \o type_name(op) \o <<"'">>)
  ELSE IF /\ op.t = "str"
          /\ \E i \in 1..Len(tool_name_map) : tool_name_map[i][1] = op.s
    THEN Returned(PyStr(tool_name_map[
                          CHOOSE i \in 1..Len(tool_name_map) :
                            tool_name_map[i][1] = op.s][2]))
  ELSE Returned(PyStr(<<"S","e","c","u","r","i","t","y","M","C","P","T","o","o","l","s","_","_","_">> \o str(op).s))

\* "Build MCP request"
mcp_request_of(mcp_tool_name, mcp_params) ==
  PyDict(<< <<<<"j","s","o","n","r","p","c">>, PyStr(<<"2",".","0">>)>>,
            <<<<"i","d">>, PyInt(1)>>,
            <<<<"m","e","t","h","o","d">>, PyStr(<<"t","o","o","l","s","/","c","a","l","l">>)>>,
            <<<<"p","a","r","a","m","s">>,
              PyDict(<< <<<<"n","a","m","e">>, mcp_tool_name>>,
                        <<<<"a","r","g","u","m","e","n","t","s">>, mcp_params>> >>)>> >>)

\* "Format result"
formatted_result_of(mcp_result) ==
  IF mcp_result.t = "dict" /\ py_has(mcp_result, <<"r","e","s","o","u","r","c","e","_","d","e","t","a","i","l","s">>)
    THEN PyDict(<<
      <<<<"s","u","m","m","a","r","y">>,
        PyStr(<<"N","e","t","w","o","r","k"," ","s","e","c","u","r","i","t","y"," ","a","n","a","l","y","s","i","s"," ","f","o","r"," ">>
                \o str(py_get(mcp_result, <<"r","e","g","i","o","n">>,
                              PyStr(<<"u","n","k","n","o","w","n"," ","r","e","g","i","o","n">>))).s)>>,
      <<<<"r","e","s","o","u","r","c","e","s","_","c","h","e","c","k","e","d">>,
        py_get(mcp_result, <<"r","e","s","o","u","r","c","e","s","_","c","h","e","c","k","e","d">>, PyInt(0))>>,
      <<<<"c","o","m","p","l","i","a","n","t","_","r","e","s","o","u","r","c","e","s">>,
        py_get(mcp_result, <<"c","o","m","p","l","i","a","n","t","_","r","e","s","o","u","r","c","e","s">>, PyInt(0))>>,
      <<<<"n","o","n","_","c","o","m","p","l","i","a","n","t","_","r","e","s","o","u","r","c","e","s">>,
        py_get(mcp_result, <<"n","o","n","_","c","o","m","p","l","i","a","n","t","_","r","e","s","o","u","r","c","e","s">>, PyInt(0))>>,
      <<<<"c","o","m","p","l","i","a","n","c","e","_","b","y","_","s","e","r","v","i","c","e">>,
        py_get(mcp_result, <<"c","o","m","p","l","i","a","n","c","e","_","b","y","_","s","e","r","v","i","c","e">>, PyDict(<<>>))>>,
      <<<<"r","e","s","o","u","r","c","e","_","d","e","t","a","i","l","s">>,
        py_get(mcp_result, <<"r","e","s","o","u","r","c","e","_","d","e","t","a","i","l","s">>, PyList(<<>>))>>,
      <<<<"r","e","c","o","m","m","e","n","d","a","t","i","o","n","s">>,
        py_get(mcp_result, <<"r","e","c","o","m","m","e","n","d","a","t","i","o","n","s">>, PyList(<<>>))>> >>)
  ELSE IF mcp_result.t = "dict" THEN mcp_result
  ELSE PyDict(<< <<<<"r","a","w","_","r","e","s","u","l","t">>, mcp_result>> >>)

\* f'Lambda error: {str(e)}' of the except clause
lambda_error(text) == PyStr(<<"L","a","m","b","d","a"," ","e","r","r","o","r",":"," ">> \o text)

---------------------------------------------------------------------------
(* lambda_handler of the gateway proxy, with the two HTTP requests it      *)
(* makes answered by the environment                                       *)

\* what the handler does once the token request is answered: it returns a
\* response, or it sends mcp_request to the gateway
after_token(event, reply) ==
  IF reply.error # ""
    THEN [returns |-> TRUE, mcp_request |-> None,
          response |-> error_response(event, lambda_error(reply.error_text))]
  ELSE IF reply.status_code # 200
    THEN [returns |-> TRUE, mcp_request |-> None,
          response |->
            error_response(event,
                           PyStr(<<"F","a","i","l","e","d"," ","t","o"," ","g","e","t"," ","O","A","u","t","h"," ","t","o","k","e","n",":"," ">>
                                   \o int_str(reply.status_code)))]
  ELSE
    LET token ==
          IF reply.json.raised # "" THEN reply.json
          ELSE IF reply.json.value.t = "dict"
            THEN IF py_has(reply.json.value, <<"a","c","c","e","s","s","_","t","o","k","e","n">>)
                   THEN Returned(py_get(reply.json.value,
                                        <<"a","c","c","e","s","s","_","t","o","k","e","n">>, None))
                   ELSE Throw("KeyError", <<"'","a","c","c","e","s","s","_","t","o","k","e","n","'">>)
          ELSE Throw("TypeError", type_name(reply.json.value)
                       \o <<" ","i","n","d","i","c","e","s"," ","m","u","s","t"," ","b","e"," ","i","n","t","e","g","e","r","s"," ","o","r"," ","s","l","i","c","e","s",","," ","n","o","t"," ","s","t","r">>)
        mcp_params    == mcp_params_of(event)
        mcp_tool_name == mcp_tool_name_of(event_get(event, "actionGroup"))
        failed ==
          IF token.raised # "" THEN token
          ELSE IF mcp_params.raised # "" THEN mcp_params
          ELSE mcp_tool_name
    IN  IF failed.raised # ""
          THEN [returns |-> TRUE, mcp_request |-> None,
                response |->
                  error_response(event, lambda_error(failed.value.s))]
          ELSE [returns |-> FALSE,
                mcp_request |-> mcp_request_of(mcp_tool_name.value,
                                               mcp_params.value),
                response |-> None]

\* what the handler returns once the gateway request is answered
after_gateway(event, reply) ==
  IF reply.error # ""
    THEN error_response(event, lambda_error(reply.error_text))
  ELSE IF reply.status_code = 200
    THEN IF reply.json.raised # ""
           THEN error_response(event, lambda_error(reply.json.value.s))
         ELSE IF reply.json.value.t # "dict"
           THEN error_response(
                  event,
                  lambda_error(<<"'">> \o type_name(reply.json.value)
                                 \o <<"'"," ","o","b","j","e","c","t"," ","h","a","s"," ","n","o"," ","a","t","t","r","i","b","u","t","e"," ","'","g","e","t","'">>))
         ELSE success_response(
                event,
                formatted_result_of(py_get(reply.json.value, <<"r","e","s","u","l","t">>,
                                           PyDict(<<>>))))
  ELSE error_response(event,
                      PyStr(<<"G","a","t","e","w","a","y"," ","e","r","r","o","r",":"," ">> \o int_str(reply.status_code)
                              \o <<" ","-"," ">> \o reply.text))

\* an HTTP exchange: requests.post raises, or answers with a status, a text
\* and what .json() gives for it
RequestFails(text) ==
  [error |-> "RequestException", error_text |-> text, status_code |-> 0,
   text |-> <<>>, json |-> Returned(None)]

Answer(status_code, text, json) ==
  [error |-> "", error_text |-> <<>>, status_code |-> status_code,
   text |-> text, json |-> json]

NoReply == Answer(0, <<>>, Returned(None))

NotJson == Throw("JSONDecodeError", <<"E","x","p","e","c","t","i","n","g"," ","v","a","l","u","e",":"," ","l","i","n","e"," ","1"," ","c","o","l","u","m","n"," ","1">>)

TokenReplies ==
  { RequestFails(<<"R","e","a","d"," ","t","i","m","e","d"," ","o","u","t">>),
    Answer(401, <<"{","\"","e","r","r","o","r","\"",":","\"","i","n","v","a","l","i","d","_","c","l","i","e","n","t","\"","}">>, NotJson),
    Answer(500, <<>>, NotJson),
    Answer(200, <<>>,
           Returned(PyDict(<< <<<<"a","c","c","e","s","s","_","t","o","k","e","n">>, PyStr(<<"t","0","k">>)>> >>))),
    Answer(200, <<>>,
           Returned(PyDict(<< <<<<"e","r","r","o","r">>, PyStr(<<"d","e","n","i","e","d">>)>> >>))),
    Answer(200, <<>>, Returned(PyList(<<>>))),
    Answer(200, <<"<","h","t","m","l",">">>, NotJson) }

NetworkResult ==
  PyDict(<< <<<<"r","e","g","i","o","n">>, PyStr(<<"u","s","-","e","a","s","t","-","1">>)>>,
            <<<<"r","e","s","o","u","r","c","e","s","_","c","h","e","c","k","e","d">>, PyInt(2)>>,
            <<<<"r","e","s","o","u","r","c","e","_","d","e","t","a","i","l","s">>,
              PyList(<<PyDict(<< <<<<"i","d">>, PyStr(<<"v","p","c","-","\"","1","\"">>)>> >>)>>)>> >>)

GatewayReplies ==
  { RequestFails(<<"R","e","a","d"," ","t","i","m","e","d"," ","o","u","t">>),
    Answer(403, <<"{","\"","m","e","s","s","a","g","e","\"",":","\"","F","o","r","b","i","d","d","e","n","\"","}">>, NotJson),
    Answer(500, <<"a","\\","b">>, NotJson),
    Answer(200, <<>>, NotJson),
    Answer(200, <<>>, Returned(PyList(<<>>))),
    Answer(200, <<>>, Returned(PyDict(<<>>))),
    Answer(200, <<>>,
           Returned(PyDict(<< <<<<"r","e","s","u","l","t">>, NetworkResult>> >>))),
    Answer(200, <<>>,
           Returned(PyDict(<< <<<<"r","e","s","u","l","t">>,
                               PyDict(<< <<<<"s","t","a","t","u","s">>, PyStr(<<"o","k">>)>>
                                      >>)>> >>))),
    Answer(200, <<>>,
           Returned(PyDict(<< <<<<"r","e","s","u","l","t">>,
                               PyDict(<< <<<<"r","e","s","o","u","r","c","e","_","d","e","t","a","i","l","s">>, None>>
                                      >>)>> >>))),
    Answer(200, <<>>,
           Returned(PyDict(<< <<<<"r","e","s","u","l","t">>, PyStr(<<"s","a","y"," ","\"","h","i","\"">>)>> >>))),
    Answer(200, <<>>,
           Returned(PyDict(<< <<<<"r","e","s","u","l","t">>,
                               PyList(<<PyInt(1), PyBool(TRUE), None>>)>>
                           >>))) }

\* events: any subset of the keys, with these values
Absent == [t |-> "absent"]

Param(name, value) ==
  PyDict(<< <<<<"n","a","m","e">>, PyStr(name)>>, <<<<"v","a","l","u","e">>, value>> >>)

ActionGroups ==
  {Absent, PyStr(<<"g","e","t","_","s","e","c","u","r","i","t","y","_","f","i","n","d","i","n","g","s">>), PyStr(<<"g","e","t","S","e","c","u","r","i","t","y","F","i","n","d","i","n","g","s">>),
   PyStr(<<>>), PyList(<<>>)}

ApiPaths == {Absent, PyStr(<<"/","s","e","c","u","r","i","t","y","-","f","i","n","d","i","n","g","s">>)}

HttpMethods == {Absent, PyStr(<<"P","O","S","T">>)}

ParameterLists ==
  {Absent, None, PyList(<<>>),
   PyList(<<Param(<<"r","e","g","i","o","n">>, PyStr(<<"u","s","-","w","e","s","t","-","2">>)),
            Param(<<"s","e","v","e","r","i","t","y">>, PyStr(<<"H","I","G","H">>)),
            Param(<<"s","e","r","v","i","c","e">>, PyStr(<<"g","u","a","r","d","d","u","t","y">>)),
            Param(<<"m","a","x","F","i","n","d","i","n","g","s">>, PyStr(<<"5","0">>))>>),
   PyList(<<Param(<<"s","e","r","v","i","c","e">>, PyStr(<<"s","3">>)),
            Param(<<"s","e","r","v","i","c","e">>, PyStr(<<"e","b","s">>))>>),
   PyList(<<Param(<<"r","e","g","i","o","n">>, PyStr(<<"u","s","-","w","e","s","t","-","2">>)), PyStr(<<"r","e","g","i","o","n">>)>>)}

EventOf(actionGroup, apiPath, httpMethod, parameters) ==
  LET all == [actionGroup |-> actionGroup, apiPath |-> apiPath,
              httpMethod |-> httpMethod, parameters |-> parameters]
  IN  [k \in {key \in DOMAIN all : all[key] # Absent} |-> all[k]]

Events ==
  {EventOf(a, p, m, l) : a \in ActionGroups, p \in ApiPaths,
                         m \in HttpMethods, l \in ParameterLists}

InitGateway ==
  /\ gw \in {[pc |-> "start", event |-> e,
              token_requests |-> 0, token_reply |-> NoReply,
              gateway_requests |-> 0, gateway_reply |-> NoReply,
              mcp_request |-> None, response |-> None] : e \in Events}
  /\ mapper = "complete"
  /\ operation_id = ""
  /\ bedrock_parameters = <<>>
  /\ outcome = NotCalled
  /\ pc = "idle"
  /\ heap = <<>>
  /\ invocations = <<>>
  /\ returned = <<>>
  /\ lam = LamIdle
  /\ wait = WaitIdle
  /\ validation = ValidationIdle

\* lambda_handler requesting the token without validating the event
Invoke_without_validation ==
  /\ gw.pc = "start"
  /\ gw' = [gw EXCEPT !.pc = "token",
                      !.token_requests = gw.token_requests + 1]
  /\ UNCHANGED <<mapper, operation_id, bedrock_parameters, outcome, pc,
               heap, invocations, returned, lam, wait, validation>>

\* lambda_handler up to the token request: the event is validated
Invoke ==
  /\ gw.pc = "start"
  /\ gw' = IF "actionGroup" \notin DOMAIN gw.event
             THEN [gw EXCEPT
                     !.pc = "returned",
                     !.response =
                       error_response(
                         gw.event, PyStr(<<"M","i","s","s","i","n","g"," ","a","c","t","i","o","n","G","r","o","u","p"," ","i","n"," ","e","v","e","n","t">>))]
             ELSE [gw EXCEPT !.pc = "token",
                             !.token_requests = gw.token_requests + 1]
  /\ UNCHANGED <<mapper, operation_id, bedrock_parameters, outcome, pc,
               heap, invocations, returned, lam, wait, validation>>

\* from the token response to the gateway request, or to a return
TokenReply ==
  /\ gw.pc = "token"
  /\ \E reply \in TokenReplies :
       LET next == after_token(gw.event, reply)
       IN  gw' = IF next.returns
                   THEN [gw EXCEPT !.pc = "returned",
                                   !.token_reply = reply,
                                   !.response = next.response]
                   ELSE [gw EXCEPT
                           !.pc = "gateway",
                           !.token_reply = reply,
                           !.mcp_request = next.mcp_request,
                           !.gateway_requests = gw.gateway_requests + 1]
  /\ UNCHANGED <<mapper, operation_id, bedrock_parameters, outcome, pc,
               heap, invocations, returned, lam, wait, validation>>

\* from the gateway response to the return
GatewayReply ==
  /\ gw.pc = "gateway"
  /\ \E reply \in GatewayReplies :
       gw' = [gw EXCEPT !.pc = "returned",
                        !.gateway_reply = reply,
                        !.response = after_gateway(gw.event, reply)]
  /\ UNCHANGED <<mapper, operation_id, bedrock_parameters, outcome, pc,
               heap, invocations, returned, lam, wait, validation>>

NextGateway == Invoke \/ TokenReply \/ GatewayReply

SpecGateway == InitGateway /\ [][NextGateway]_vars

---------------------------------------------------------------------------
(* C1 *)

Returned200 ==
  gw.pc = "returned" /\ gw.response.response.httpStatusCode = PyInt(200)

\* C1: whatever path the gateway-proxy lambda_handler returns on (missing
\* actionGroup, token request not 200, gateway 200, gateway not 200, an
\* exception inside the try block), the value is the envelope: messageVersion
\* '1.0' and a response holding the event's actionGroup, apiPath and
\* httpMethod, an integer httpStatusCode and
\* responseBody['application/json']['body'], where body is a str, never a
\* structured value.
C1_EnvelopeOnEveryPath ==
  gw.pc = "returned"
  => LET r == gw.response
     IN  /\ DOMAIN r = {"messageVersion", "response"}
         /\ r.messageVersion = PyStr(<<"1",".","0">>)
         /\ DOMAIN r.response = {"actionGroup", "apiPath", "httpMethod",
                                 "httpStatusCode", "responseBody"}
         /\ \A k \in {"actionGroup", "apiPath", "httpMethod"} :
              r.response[k] = IF k \in DOMAIN gw.event THEN gw.event[k]
                                                      ELSE PyStr(<<>>)
         /\ r.response.httpStatusCode.t = "int"
         /\ DOMAIN r.response.responseBody = {"application/json"}
         /\ DOMAIN r.response.responseBody["application/json"] = {"body"}
         /\ LET body == r.response.responseBody["application/json"].body
            IN  /\ body.t = "str"
                /\ Len(body.s) >= 2
                /\ body.s[1] = "{" /\ body.s[Len(body.s)] = "}"

\* a return on the success path, whose data is a nested structure
C1_Witness ==
  /\ Returned200
  /\ gw.gateway_reply.json.value.t = "dict"
  /\ py_get(gw.gateway_reply.json.value, <<"r","e","s","u","l","t">>, None) = NetworkResult
  /\ gw.response.response.responseBody["application/json"].body.t = "str"


---------------------------------------------------------------------------
(* C11 *)

\* the Python type a declared type stands for
PythonType(type) ==
  CASE type = "array"   -> "list"
    [] type = "integer" -> "int"
    [] type = "boolean" -> "bool"
    [] OTHER            -> "str"

\* C11: after a successful call every returned value has the Python type
\* of its parameter's declared type (str, int, bool or list), whether it is
\* a default or was converted from an inbound value of any raw type; every
\* key the complete mapper returns is declared, and a key the template
\* passes through undeclared holds a str.
C11_ValuesHaveDeclaredType ==
  ( pc = "done" /\ outcome.raised = "" )
  => /\ \A g \in dict_keys(outcome.mapped_params) :
          Arguments[g].t = PythonType(DeclaredType(mapper, operation_id, g))
     /\ mapper = "complete"
          => dict_keys(outcome.mapped_params)
               \subseteq DeclaredNames(mapper, operation_id)

C11_Witness ==
  /\ Called("complete")
  /\ operation_id = "getSecurityFindings"
  /\ bedrock_parameters = <<[name |-> "service", value |-> PyInt(5)]>>
  /\ outcome.raised = ""
  /\ Arguments["service"] = PyStr(<<"5">>)
  /\ Arguments["max_findings"] = PyInt(100)

---------------------------------------------------------------------------
(* C17 *)

\* C17: every tool name an operation id is mapped to is a key of the
\* signature registry, in both templates, and no call ends with the
\* unknown-tool failure.
C17_RegistryConsistent ==
  /\ \A op \in DOMAIN OPERATION_TO_TOOL_MAP :
       OPERATION_TO_TOOL_MAP[op] \in DOMAIN GATEWAY_TOOL_SIGNATURES
  /\ \A op \in DOMAIN template_OPERATION_TO_TOOL_MAP :
       template_OPERATION_TO_TOOL_MAP[op]
         \in DOMAIN template_GATEWAY_TOOL_SIGNATURES
  /\ pc = "done" => outcome.message # "Unknown tool"

C17_Witness ==
  /\ Called("complete")
  /\ operation_id = "checkNetworkSecurity"
  /\ outcome.raised = ""
  /\ outcome.tool_name \in DOMAIN GATEWAY_TOOL_SIGNATURES

---------------------------------------------------------------------------
(* C18 *)

\* the parameters of a signature that are required and have a default
RequiredWithDefault(parameters) ==
  {parameters[i].name : i \in {j \in 1..Len(parameters) :
                                 /\ parameters[j].required
                                 /\ parameters[j].default # None}}

\* the parameters of a signature that are required
RequiredNames(parameters) ==
  {parameters[i].name : i \in {j \in 1..Len(parameters) :
                                 parameters[j].required}}

\* C18 as claimed: in the signature of the tool a call resolves to (every
\* signature of either registry is that of some call) a required parameter
\* has no default.
C18_RequiredHasNoDefault ==
  ( pc = "done" /\ KnownOperation(mapper, operation_id) )
  => RequiredWithDefault(SignatureOf(mapper, operation_id)) = {}

\* C18 amended: that holds in the registry of the complete mapper.  In the
\* registry of the template every tool declares region, and nothing else,
\* required, with the default "us-east-1"; so no call through the template
\* fails for a missing required parameter.
C18_RequiredDefaults ==
  /\ \A tool \in DOMAIN GATEWAY_TOOL_SIGNATURES :
       RequiredWithDefault(GATEWAY_TOOL_SIGNATURES[tool]) = {}
  /\ \A tool \in DOMAIN template_GATEWAY_TOOL_SIGNATURES :
       LET parameters == template_GATEWAY_TOOL_SIGNATURES[tool]
       IN  /\ RequiredNames(parameters) = {"region"}
           /\ RequiredWithDefault(parameters) = {"region"}
           /\ \A i \in 1..Len(parameters) :
                parameters[i].name = "region"
                  => parameters[i].default = PyStr(<<"u","s","-","e","a","s","t","-","1">>)
  /\ Called("template") => outcome.message # "Missing required parameter"

C18_Witness ==
  /\ Called("template")
  /\ operation_id = "getSecurityFindings"
  /\ bedrock_parameters = <<>>
  /\ outcome.raised = ""
  /\ Arguments["region"] = PyStr(<<"u","s","-","e","a","s","t","-","1">>)

---------------------------------------------------------------------------
(* C19 *)

\* the canonical names the alias map of a tool leads to
AliasTargets(param_map) == {param_map[a] : a \in DOMAIN param_map}

\* the names a signature declares
SignatureNames(parameters) ==
  {parameters[i].name : i \in 1..Len(parameters)}

\* C19: in both templates every tool of the registry has an alias map; it
\* gives each inbound spelling one canonical name, every such name is
\* declared in the tool's signature, and every declared parameter is the
\* target of at least one spelling.  A call stores an inbound value under
\* the one name its spelling stands for and leaves the others at their
\* defaults.
C19_AliasMapCoversSignature ==
  /\ DOMAIN PARAMETER_NAME_MAP = DOMAIN GATEWAY_TOOL_SIGNATURES
  /\ \A tool \in DOMAIN GATEWAY_TOOL_SIGNATURES :
       AliasTargets(PARAMETER_NAME_MAP[tool])
         = SignatureNames(GATEWAY_TOOL_SIGNATURES[tool])
  /\ DOMAIN template_PARAMETER_NAME_MAP
       = DOMAIN template_GATEWAY_TOOL_SIGNATURES
  /\ \A tool \in DOMAIN template_GATEWAY_TOOL_SIGNATURES :
       AliasTargets(template_PARAMETER_NAME_MAP[tool])
         = SignatureNames(template_GATEWAY_TOOL_SIGNATURES[tool])
  /\ ( /\ pc = "done"
       /\ outcome.raised = ""
       /\ Len(bedrock_parameters) = 1
       /\ bedrock_parameters[1].name
            \in DOMAIN AliasesOf(mapper, operation_id)
       /\ bedrock_parameters[1].value = PyStr(<<"a">>) )
     => LET g == AliasesOf(mapper, operation_id)[bedrock_parameters[1].name]
        IN  /\ g \in DeclaredNames(mapper, operation_id)
            /\ g \in dict_keys(outcome.mapped_params)
            /\ \A k \in dict_keys(outcome.mapped_params) \ {g} :
                 /\ k \in DeclaredNames(mapper, operation_id)
                 /\ Arguments[k] = Declared(mapper, operation_id, k).default

C19_Witness ==
  /\ Called("template")
  /\ operation_id = "getSecurityFindings"
  /\ bedrock_parameters = <<[name |-> "severity", value |-> PyStr(<<"a">>)]>>
  /\ outcome.raised = ""
  /\ Arguments["severity"] = PyStr(<<"a">>)

---------------------------------------------------------------------------
(* C20 *)

\* C20: the returned arguments never hold None as a value, whatever the
\* operation and the inbound list, entries with a None value included; a
\* parameter without default that no entry stored is absent.
C20_NoNullArguments ==
  ( pc = "done" /\ outcome.raised = "" )
  => /\ \A g \in dict_keys(outcome.mapped_params) : Arguments[g] # None
     /\ \A g \in DeclaredNames(mapper, operation_id) :
          ( /\ Declared(mapper, operation_id, g).default = None
            /\ \A i \in Positions :
                 Canonical(mapper, operation_id, bedrock_parameters[i].name)
                   # g )
          => g \notin dict_keys(outcome.mapped_params)

C20_Witness ==
  /\ Called("complete")
  /\ operation_id = "checkNetworkSecurity"
  /\ bedrock_parameters = <<[name |-> "services", value |-> None]>>
  /\ outcome.raised = ""

---------------------------------------------------------------------------
(* map_parameters called repeatedly and concurrently.                      *)
(*                                                                         *)
(* A Python list is an object: the registry's list defaults and the lists  *)
(* of the caller's inbound entries exist before a call and outlive it, so  *)
(* they live in heap, and a value that is such an object is a reference to *)
(* it.  A list that a call creates is written by value.  The dicts of the  *)
(* three tables are only read by map_parameters (get, items, subscript)    *)
(* and stay definitions.                                                   *)

Ref(id) == [t |-> "ref", id |-> id]

\* the object a value is, read now
deref(h, value) == IF value.t = "ref" THEN PyList(h[value.id]) ELSE value

RegistryOf(m) ==
  IF m = "complete" THEN GATEWAY_TOOL_SIGNATURES
                    ELSE template_GATEWAY_TOOL_SIGNATURES

\* the list objects that are defaults of a registry
RegistryIds ==
  UNION { UNION { { <<"registry", m, tool, RegistryOf(m)[tool][i].name>> :
                      i \in {j \in 1..Len(RegistryOf(m)[tool]) :
                               RegistryOf(m)[tool][j].default.t = "list"} } :
                  tool \in DOMAIN RegistryOf(m) } :
          m \in {"complete", "template"} }

\* the list a registry default holds when the module is loaded
LoadedDefault(id) ==
  LET parameters == RegistryOf(id[2])[id[3]]
  IN  parameters[CHOOSE i \in 1..Len(parameters) :
                   parameters[i].name = id[4]].default.l

LoadedHeap == [id \in RegistryIds |-> LoadedDefault(id)]

\* tool_sig['parameters'] as the call sees it: param_def['default'] of a
\* list default is the registry's list object itself
shared_parameters(m, tool_name) ==
  LET parameters == RegistryOf(m)[tool_name]
  IN  [i \in 1..Len(parameters) |->
         IF parameters[i].default.t = "list"
           THEN [parameters[i] EXCEPT
                   !.default = Ref(<<"registry", m, tool_name,
                                     parameters[i].name>>)]
           ELSE parameters[i]]

\* the caller's inbound list: a list value is an object of the caller
InboundId(t, i) == <<"inbound", t, ToString(i), "value">>

by_reference(t, inbound) ==
  [i \in 1..Len(inbound) |->
     IF inbound[i].value.t = "list"
       THEN [inbound[i] EXCEPT !.value = Ref(InboundId(t, i))]
       ELSE inbound[i]]

\* the heap once caller t holds that inbound list (and no earlier one)
allocate(h, t, inbound) ==
  LET kept == {id \in DOMAIN h : ~(id[1] = "inbound" /\ id[2] = t)}
      made == {InboundId(t, i) : i \in {j \in 1..Len(inbound) :
                                         inbound[j].value.t = "list"}}
  IN  [id \in kept \cup made |->
         IF id \in made
           THEN inbound[CHOOSE i \in 1..Len(inbound) :
                          InboundId(t, i) = id].value.l
           ELSE h[id]]

\* the mapped arguments as their reader sees them now
visible_params(h, mapped_params) ==
  [i \in 1..Len(mapped_params) |->
     <<mapped_params[i][1], deref(h, mapped_params[i][2])>>]

visible(h, result) ==
  [result EXCEPT !.mapped_params = visible_params(h, result.mapped_params)]

\* setitem writing the new list into the list object already stored under
\* the key, as mapped_params[k][:] = v does
setitem_in_place(h, mapped_params, k, v) ==
  IF /\ k \in dict_keys(mapped_params)
     /\ dict_get(mapped_params, k).t = "ref"
     /\ v.t = "list"
    THEN [heap |-> [h EXCEPT ![dict_get(mapped_params, k).id] = v.l],
          mapped_params |-> mapped_params]
    ELSE [heap |-> h, mapped_params |-> dict_set(mapped_params, k, v)]

\* mapped_params[k] = v: the key is bound to v in the call's own dict; the
\* object bound to it before is not written
setitem(h, mapped_params, k, v) ==
  [heap |-> h, mapped_params |-> dict_set(mapped_params, k, v)]

\* no store: the entry is skipped
skip(h, mapped_params) ==
  [heap |-> h, mapped_params |-> mapped_params, raised |-> ""]

stored(after) ==
  [heap |-> after.heap, mapped_params |-> after.mapped_params, raised |-> ""]

\* complete-parameter-mapper.py: one iteration of the loop over the
\* inbound entries; a list is stored as the object it is
step_map_one(h, parameters, param_map, mapped_params, bedrock_param) ==
  LET bedrock_name  == bedrock_param.name
      bedrock_value == bedrock_param.value
      gateway_name  == gateway_name_of(param_map, bedrock_name)
      type          == expected_type(parameters, gateway_name)
      converted     == coerce(type, deref(h, bedrock_value))
  IN  IF bedrock_name = "" \/ bedrock_value = None
        THEN skip(h, mapped_params)
      ELSE IF gateway_name = "" THEN skip(h, mapped_params)
      ELSE IF type = "array" /\ bedrock_value.t = "ref"
        THEN stored(setitem(h, mapped_params, gateway_name, bedrock_value))
      ELSE IF converted.raised \in {"ValueError", "TypeError"}
        THEN skip(h, mapped_params)
      ELSE stored(setitem(h, mapped_params, gateway_name, converted.value))

\* parameter-mapper.py: one iteration of the loop; an exception of int()
\* leaves the loop and the call
template_step_map_one(h, parameters, param_map, mapped_params, bedrock_param) ==
  LET bedrock_value == bedrock_param.value
      gateway_name  == template_gateway_name_of(param_map,
                                                bedrock_param.name)
      type          == expected_type(parameters, gateway_name)
      converted     == template_coerce(type, deref(h, bedrock_value))
  IN  IF type = "array" /\ bedrock_value.t = "ref"
        THEN stored(setitem(h, mapped_params, gateway_name, bedrock_value))
      ELSE IF converted.raised # ""
        THEN [heap |-> h, mapped_params |-> mapped_params,
              raised |-> converted.raised]
      ELSE stored(setitem(h, mapped_params, gateway_name, converted.value))

---------------------------------------------------------------------------
(* The invocations as a state machine: each caller thread calls            *)
(* map_parameters, the calls run statement by statement and interleave.    *)

MaxCalls == 3

Threads == {"t1", "t2"}

\* the calls made: (template, operation_id, bedrock_parameters)
SessionCall(m, op, inbound) ==
  [mapper |-> m, operation_id |-> op, bedrock_parameters |-> inbound]

SessionCalls ==
  { SessionCall("complete", "checkSecurityStatus", <<>>),
    SessionCall("complete", "checkSecurityStatus",
                <<[name |-> "services", value |-> PyStr(<<"e","c","2">>)]>>),
    SessionCall("complete", "checkSecurityStatus",
                <<[name |-> "services",
                   value |-> PyList(<<PyStr(<<"s","3">>)>>)]>>),
    SessionCall("complete", "getSecurityFindings",
                <<[name |-> "service", value |-> PyStr(<<"s","3">>)],
                  [name |-> "maxFindings", value |-> PyStr(<<"5","0">>)]>>),
    SessionCall("complete", "getSecurityFindings", <<>>),
    SessionCall("complete", "bogusOperation", <<>>),
    SessionCall("template", "checkSecurityStatus", <<>>),
    SessionCall("template", "getSecurityFindings",
                <<[name |-> "limit", value |-> PyStr(<<"f","i","f","t","y">>)]>>) }

NoCall == SessionCall("", "", <<>>)

\* an invocation: the call, its arguments as objects, its locals, and what
\* it returned or raised; interleaved tells that another invocation took a
\* step while this one ran, modified that the caller changed the result
Idle ==
  [pc |-> "idle", call |-> NoCall, bedrock_parameters |-> <<>>,
   tool_name |-> "", mapped_params |-> <<>>, i |-> 0,
   outcome |-> NotCalled, interleaved |-> FALSE, modified |-> FALSE]

Running(t) == invocations[t].pc \notin {"idle", "done"}

\* the calls begun so far
Begun == Len(returned) + Cardinality({t \in Threads : Running(t)})

\* the invocations after thread t took a step to inv
Stepped(t, inv) ==
  [u \in Threads |->
     IF u = t THEN inv
     ELSE IF Running(u) THEN [invocations[u] EXCEPT !.interleaved = TRUE]
     ELSE invocations[u]]

\* the invocation of t ends with that outcome: its locals are gone
Ended(t, result) ==
  [invocations[t] EXCEPT !.pc = "done", !.tool_name = "",
                         !.mapped_params = <<>>, !.i = 0,
                         !.outcome = result]

\* the log of finished calls: the call and what its caller saw returned
Logged(t, h, result) ==
  Append(returned, [call |-> invocations[t].call,
                    outcome |-> visible(h, result)])

MapperIdle ==
  /\ mapper = "complete"
  /\ operation_id = ""
  /\ bedrock_parameters = <<>>
  /\ outcome = NotCalled
  /\ pc = "idle"
  /\ gw = GwIdle
  /\ lam = LamIdle
  /\ wait = WaitIdle
  /\ validation = ValidationIdle

InitSession ==
  /\ heap = LoadedHeap
  /\ invocations = [t \in Threads |-> Idle]
  /\ returned = <<>>
  /\ MapperIdle

\* the caller passes its arguments: map_parameters(operation_id, parameters)
Begin(t) ==
  /\ ~Running(t)
  /\ Begun < MaxCalls
  /\ \E call \in SessionCalls :
       /\ heap' = allocate(heap, t, call.bedrock_parameters)
       /\ invocations' =
            Stepped(t, [Idle EXCEPT
                          !.pc = "resolve", !.call = call,
                          !.bedrock_parameters =
                            by_reference(t, call.bedrock_parameters)])
  /\ UNCHANGED <<returned, mapper, operation_id, bedrock_parameters,
                 outcome, pc, gw, lam, wait, validation>>

\* "Get Gateway tool name", "Get tool signature"
Resolve(t) ==
  /\ invocations[t].pc = "resolve"
  /\ LET m  == invocations[t].call.mapper
         op == invocations[t].call.operation_id
         tool_name == IF m = "complete" THEN tool_name_of(op)
                                        ELSE template_tool_name_of(op)
         failure ==
           IF tool_name = ""
             THEN Raise("ValueError", "Unknown operation", <<op>>)
           ELSE IF tool_name \notin DOMAIN RegistryOf(m)
             THEN Raise("ValueError", "Unknown tool", <<tool_name>>)
           ELSE NotCalled
     IN  IF failure # NotCalled
           THEN /\ invocations' = Stepped(t, Ended(t, failure))
                /\ returned' = Logged(t, heap, failure)
           ELSE /\ invocations' =
                     Stepped(t, [invocations[t] EXCEPT
                                   !.pc = "seed", !.tool_name = tool_name])
                /\ UNCHANGED returned
  /\ UNCHANGED <<heap, mapper, operation_id, bedrock_parameters,
                 outcome, pc, gw, lam, wait, validation>>

\* "Start with default values"
Seed(t) ==
  /\ invocations[t].pc = "seed"
  /\ LET m == invocations[t].call.mapper
         parameters == shared_parameters(m, invocations[t].tool_name)
     IN  invocations' =
           Stepped(t, [invocations[t] EXCEPT
                         !.pc = "loop", !.i = 1,
                         !.mapped_params =
                           IF m = "complete"
                             THEN seed_defaults(parameters)
                             ELSE template_seed_defaults(parameters)])
  /\ UNCHANGED <<heap, returned, mapper, operation_id, bedrock_parameters,
                 outcome, pc, gw, lam, wait, validation>>

\* "Map provided parameters": the next inbound entry
LoopEntry(t) ==
  /\ invocations[t].pc = "loop"
  /\ invocations[t].i <= Len(invocations[t].bedrock_parameters)
  /\ LET inv == invocations[t]
         m == inv.call.mapper
         parameters == shared_parameters(m, inv.tool_name)
         bedrock_param == inv.bedrock_parameters[inv.i]
         after ==
           IF m = "complete"
             THEN step_map_one(heap, parameters,
                               PARAMETER_NAME_MAP[inv.tool_name],
                               inv.mapped_params, bedrock_param)
             ELSE template_step_map_one(
                    heap, parameters,
                    template_PARAMETER_NAME_MAP[inv.tool_name],
                    inv.mapped_params, bedrock_param)
         failure == Raise(after.raised, "int()", <<>>)
     IN  /\ heap' = after.heap
         /\ IF after.raised # ""
              THEN /\ invocations' = Stepped(t, Ended(t, failure))
                   /\ returned' = Logged(t, after.heap, failure)
              ELSE /\ invocations' =
                        Stepped(t, [inv EXCEPT
                                      !.i = inv.i + 1,
                                      !.mapped_params = after.mapped_params])
                   /\ UNCHANGED returned
  /\ UNCHANGED <<mapper, operation_id, bedrock_parameters,
                 outcome, pc, gw, lam, wait, validation>>

\* "Validate required parameters", "Remove None values", return
Validate(t) ==
  /\ invocations[t].pc = "loop"
  /\ invocations[t].i > Len(invocations[t].bedrock_parameters)
  /\ LET inv == invocations[t]
         m == inv.call.mapper
         parameters == shared_parameters(m, inv.tool_name)
         missing == missing_params(parameters, inv.mapped_params)
         template_missing ==
           template_missing_params(parameters, inv.mapped_params)
         result ==
           IF m = "complete"
             THEN IF missing # <<>>
                    THEN Raise("ValueError", "Missing required parameters",
                               [k \in 1..Len(missing) |-> missing[k].name])
                    ELSE Return(inv.tool_name,
                                remove_none(inv.mapped_params))
             ELSE IF template_missing # <<>>
                    THEN Raise("ValueError", "Missing required parameter",
                               template_missing)
                    ELSE Return(inv.tool_name, inv.mapped_params)
     IN  /\ invocations' = Stepped(t, Ended(t, result))
         /\ returned' = Logged(t, heap, result)
  /\ UNCHANGED <<heap, mapper, operation_id, bedrock_parameters,
                 outcome, pc, gw, lam, wait, validation>>

NextConcurrent ==
  \E t \in Threads :
    Begin(t) \/ Resolve(t) \/ Seed(t) \/ LoopEntry(t) \/ Validate(t)

SpecConcurrent == InitSession /\ [][NextConcurrent]_vars

---------------------------------------------------------------------------
(* The caller of map_parameters keeps the returned arguments and may       *)
(* change them: it appends an item to a list of the mapping.               *)

MaxAppends == 1

Marker == PyStr(<<"x">>)

Appended(items) == Cardinality({i \in 1..Len(items) : items[i] = Marker})

\* result['...'].append('x') on the arguments returned to thread t
Mutate(t) ==
  /\ invocations[t].pc = "done"
  /\ invocations[t].outcome.raised = ""
  /\ \E k \in 1..Len(invocations[t].outcome.mapped_params) :
       LET value == invocations[t].outcome.mapped_params[k][2]
       IN  \/ /\ value.t = "ref"
              /\ Appended(heap[value.id]) < MaxAppends
              /\ heap' = [heap EXCEPT ![value.id] = Append(@, Marker)]
              /\ invocations' =
                   [invocations EXCEPT ![t].modified = TRUE]
           \/ /\ value.t = "list"
              /\ Appended(value.l) < MaxAppends
              /\ invocations' =
                   [invocations EXCEPT
                      ![t].modified = TRUE,
                      ![t].outcome.mapped_params[k] =
                        <<@[1], PyList(Append(value.l, Marker))>>]
              /\ UNCHANGED heap
  /\ UNCHANGED <<returned, mapper, operation_id, bedrock_parameters,
                 outcome, pc, gw, lam, wait, validation>>

NextCaller ==
  \E t \in Threads :
    \/ Begin(t) \/ Resolve(t) \/ Seed(t) \/ LoopEntry(t) \/ Validate(t)
    \/ Mutate(t)

SpecCaller == InitSession /\ [][NextCaller]_vars

---------------------------------------------------------------------------
(* What the properties of the session speak about *)

\* what the call returns when it is the only one ever made
Alone(call) ==
  IF call.mapper = "complete"
    THEN map_parameters(call.operation_id, call.bedrock_parameters)
    ELSE template_map_parameters(call.operation_id, call.bedrock_parameters)

Finished(t) == invocations[t].pc = "done"

\* what the caller of t sees in the result it holds
Seen(t) == visible(heap, invocations[t].outcome)

DefaultServices ==
  PyList(<<PyStr(<<"g","u","a","r","d","d","u","t","y">>), PyStr(<<"i","n","s","p","e","c","t","o","r">>),
           PyStr(<<"a","c","c","e","s","s","a","n","a","l","y","z","e","r">>), PyStr(<<"s","e","c","u","r","i","t","y","h","u","b">>),
           PyStr(<<"t","r","u","s","t","e","d","a","d","v","i","s","o","r">>), PyStr(<<"m","a","c","i","e">>)>>)

---------------------------------------------------------------------------
(* C12 *)

\* C12: two finished calls with the same template, operation id and
\* inbound list returned the same result (or raised the same error),
\* whatever calls were made before, between and during them.
C12_SameCallSameResult ==
  \A i, j \in 1..Len(returned) :
    returned[i].call = returned[j].call
      => returned[i].outcome = returned[j].outcome

C12_Witness ==
  /\ Len(returned) = 3
  /\ returned[1].call = SessionCall("complete", "checkSecurityStatus", <<>>)
  /\ returned[2].call =
       SessionCall("complete", "checkSecurityStatus",
                   <<[name |-> "services", value |-> PyStr(<<"e","c","2">>)]>>)
  /\ returned[3].call = returned[1].call
  /\ dict_get(returned[2].outcome.mapped_params, "services")
       = PyList(<<PyStr(<<"e","c","2">>)>>)
  /\ dict_get(returned[3].outcome.mapped_params, "services")
       = DefaultServices

---------------------------------------------------------------------------
(* C14 *)

\* C14: while invocations run, alone or interleaved, the list defaults of
\* the registries hold what they held when the module was loaded (the
\* tables' dicts are only read), and every finished invocation returned
\* what its call returns when it is the only one made.
C14_NoInterference ==
  /\ \A id \in RegistryIds : heap[id] = LoadedDefault(id)
  /\ \A t \in Threads :
       Finished(t) => Seen(t) = Alone(invocations[t].call)

C14_Witness ==
  /\ \A t \in Threads : Finished(t) /\ invocations[t].interleaved
  /\ invocations["t1"].call =
       SessionCall("complete", "checkSecurityStatus",
                   <<[name |-> "services", value |-> PyStr(<<"e","c","2">>)]>>)
  /\ invocations["t2"].call =
       SessionCall("complete", "checkSecurityStatus", <<>>)
  /\ dict_get(Seen("t2").mapped_params, "services") = DefaultServices

---------------------------------------------------------------------------
(* C13 *)

\* C13 as claimed: the returned arguments share no list with the registry,
\* with the caller's inbound list or with another result: whatever a caller
\* appends to a list of its result, the registry defaults hold what they
\* held when the module was loaded, an inbound list holds what its caller
\* put there, and a result its own caller did not touch is what the call
\* returns when it is the only one made.
C13_ResultsShareNothing ==
  /\ \A id \in RegistryIds : heap[id] = LoadedDefault(id)
  /\ \A t \in Threads :
       \A i \in 1..Len(invocations[t].bedrock_parameters) :
         invocations[t].bedrock_parameters[i].value.t = "ref"
           => heap[InboundId(t, i)]
                = invocations[t].call.bedrock_parameters[i].value.l
  /\ \A t \in Threads :
       ( Finished(t) /\ ~invocations[t].modified )
         => Seen(t) = Alone(invocations[t].call)

---------------------------------------------------------------------------
(* templates/parameter-mapper.py: lambda_handler *)

\* a dict key or name as the identifier the tables are looked up with
RECURSIVE name_of(_)
name_of(chars) ==
  IF chars = <<>> THEN "" ELSE Head(chars) \o name_of(Tail(chars))

\* event.get('parameters', []) as map_parameters walks it: each entry's
\* get('name') and get('value')
inbound_of(parameters) ==
  [i \in 1..Len(parameters.l) |->
     [name  |-> LET n == py_get(parameters.l[i], <<"n","a","m","e">>, None)
                IN  IF n = None THEN "" ELSE name_of(n.s),
      value |-> py_get(parameters.l[i], <<"v","a","l","u","e">>, None)]]

\* the names bound in the module parameter-mapper.py when lambda_handler
\* runs: its import and its top-level assignments and functions
template_module_names ==
  {"json", "GATEWAY_TOOL_SIGNATURES", "OPERATION_TO_TOOL_MAP",
   "PARAMETER_NAME_MAP", "map_parameters", "lambda_handler"}

\* the builtins lambda_handler uses
builtin_names == {"print", "str", "ValueError"}

\* the exception the evaluation of an unbound global name raises
name_error(name) ==
  Throw("NameError", <<"n","a","m","e"," ","'">> \o name \o <<"'"," ","i","s"," ","n","o","t"," ","d","e","f","i","n","e","d">>)

\* lambda_handler from its entry to the end of the try body: what the
\* call of map_parameters returned or raised
template_try(event) ==
  LET op == name_of(event_get(event, "actionGroup").s)
      parameters == IF "parameters" \in DOMAIN event
                      THEN event["parameters"] ELSE PyList(<<>>)
  IN  template_map_parameters(op, inbound_of(parameters))

---------------------------------------------------------------------------
(* templates/action-group-lambda-response.py *)

\* {p['name']: p['value'] for p in parameters}
RECURSIVE params_of(_)
params_of(parameters) ==
  IF parameters = <<>> THEN PyDict(<<>>)
  ELSE LET p == parameters[Len(parameters)]
       IN  py_set(params_of(SubSeq(parameters, 1, Len(parameters) - 1)),
                  py_get(p, <<"n","a","m","e">>, None).s, py_get(p, <<"v","a","l","u","e">>, None))

\* check_security(resource_type)
check_security(resource_type) ==
  PyList(<< PyDict(<< <<<<"s","e","v","e","r","i","t","y">>, PyStr(<<"H","I","G","H">>)>>,
                      <<<<"d","e","s","c","r","i","p","t","i","o","n">>, PyStr(<<"E","x","a","m","p","l","e"," ","f","i","n","d","i","n","g">>)>> >>) >>)

\* the exception the read of a local name raises before it is bound
unbound_local_error(name) ==
  Throw("UnboundLocalError",
        <<"c","a","n","n","o","t"," ","a","c","c","e","s","s"," ","l","o","c","a","l"," ","v","a","r","i","a","b","l","e"," ","'">> \o name
          \o <<"'"," ","w","h","e","r","e"," ","i","t"," ","i","s"," ","n","o","t"," ","a","s","s","o","c","i","a","t","e","d"," ","w","i","t","h"," ","a"," ","v","a","l","u","e">>)

\* perform_action(api_path, params).  "import json" inside the if makes
\* json a local name of the function, bound only once that statement ran.
perform_action(api_path, params) ==
  IF api_path = PyStr(<<"/","c","h","e","c","k","-","s","e","c","u","r","i","t","y","-","s","t","a","t","u","s">>)
    THEN LET resource_type == py_get(params, <<"r","e","s","o","u","r","c","e","T","y","p","e">>, PyStr(<<>>))
         IN  [raised |-> "",
              value |-> json_dumps(PyDict(<<
                          <<<<"s","t","a","t","u","s">>, PyStr(<<"s","u","c","c","e","s","s">>)>>,
                          <<<<"r","e","s","o","u","r","c","e","T","y","p","e">>, resource_type>>,
                          <<<<"f","i","n","d","i","n","g","s">>, check_security(resource_type)>> >>))]
    ELSE unbound_local_error(<<"j","s","o","n">>)

\* the dict lambda_handler returns
action_group_response(event, result) == envelope(event, 200, result)

---------------------------------------------------------------------------
(* The two handlers as a state machine: Lambda invokes one with an event. *)

LambdaActionGroups ==
  {Absent, PyStr(<<"c","h","e","c","k","S","e","c","u","r","i","t","y","S","t","a","t","u","s">>), PyStr(<<"g","e","t","S","e","c","u","r","i","t","y","F","i","n","d","i","n","g","s">>),
   PyStr(<<"b","o","g","u","s","O","p","e","r","a","t","i","o","n">>), PyStr(<<>>)}

LambdaApiPaths ==
  {Absent, PyStr(<<"/","c","h","e","c","k","-","s","e","c","u","r","i","t","y","-","s","t","a","t","u","s">>), PyStr(<<"/","s","e","c","u","r","i","t","y","-","f","i","n","d","i","n","g","s">>),
   PyStr(<<>>)}

LambdaHttpMethods == {Absent, PyStr(<<"G","E","T">>)}

LambdaParameterLists ==
  {Absent, PyList(<<>>),
   PyList(<<Param(<<"r","e","s","o","u","r","c","e","T","y","p","e">>, PyStr(<<"s","3">>))>>),
   PyList(<<Param(<<"l","i","m","i","t">>, PyStr(<<"f","i","f","t","y">>))>>),
   PyList(<<Param(<<"l","i","m","i","t">>, None)>>),
   PyList(<<Param(<<"r","e","g","i","o","n">>, PyStr(<<"u","s","-","w","e","s","t","-","2">>)),
            Param(<<"s","e","r","v","i","c","e">>, PyStr(<<"s","3">>))>>)}

LambdaEvents ==
  {EventOf(a, p, m, l) : a \in LambdaActionGroups, p \in LambdaApiPaths,
                         m \in LambdaHttpMethods,
                         l \in LambdaParameterLists}

InitLambda ==
  /\ lam \in {[pc |-> "start", handler |-> h, event |-> e,
               caught |-> "", result |-> None,
               raised |-> "", response |-> None] :
                h \in {"parameter-mapper", "action-group"},
                e \in LambdaEvents}
  /\ mapper = "complete"
  /\ operation_id = ""
  /\ bedrock_parameters = <<>>
  /\ outcome = NotCalled
  /\ pc = "idle"
  /\ gw = GwIdle
  /\ wait = WaitIdle
  /\ validation = ValidationIdle
  /\ heap = <<>>
  /\ invocations = <<>>
  /\ returned = <<>>

\* parameter-mapper.py lambda_handler, the try body: map_parameters
\* returns and the handler runs off its end (it returns None), or raises;
\* a ValueError is caught, any other exception leaves the handler
TemplateTry ==
  /\ lam.pc = "start"
  /\ lam.handler = "parameter-mapper"
  /\ LET mapped == template_try(lam.event)
     IN  lam' = IF mapped.raised = ""
                  THEN [lam EXCEPT !.pc = "returned"]
                ELSE IF mapped.raised = "ValueError"
                  THEN [lam EXCEPT !.pc = "except",
                                   !.caught = mapped.message]
                ELSE [lam EXCEPT !.pc = "raised",
                                 !.raised = mapped.raised]
  /\ UNCHANGED <<mapper, operation_id, bedrock_parameters, outcome, pc, gw,
                 heap, invocations, returned, wait, validation>>

\* the except clause: "return error_response(event, str(e))" first
\* evaluates the name error_response, which the module does not bind
TemplateExcept ==
  /\ lam.pc = "except"
  /\ "error_response" \notin template_module_names \cup builtin_names
  /\ lam' = [lam EXCEPT
               !.pc = "raised",
               !.raised = name_error(<<"e","r","r","o","r","_","r","e","s","p","o","n","s","e">>).raised,
               !.result = name_error(<<"e","r","r","o","r","_","r","e","s","p","o","n","s","e">>).value]
  /\ UNCHANGED <<mapper, operation_id, bedrock_parameters, outcome, pc, gw,
                 heap, invocations, returned, wait, validation>>

\* action-group-lambda-response.py lambda_handler up to the return of
\* perform_action
ActionGroupPerform ==
  /\ lam.pc = "start"
  /\ lam.handler = "action-group"
  /\ LET parameters == IF "parameters" \in DOMAIN lam.event
                         THEN lam.event["parameters"] ELSE PyList(<<>>)
         performed == perform_action(event_get(lam.event, "apiPath"),
                                     params_of(parameters.l))
     IN  lam' = IF performed.raised = ""
                  THEN [lam EXCEPT !.pc = "respond",
                                   !.result = performed.value]
                  ELSE [lam EXCEPT !.pc = "raised",
                                   !.raised = performed.raised,
                                   !.result = performed.value]
  /\ UNCHANGED <<mapper, operation_id, bedrock_parameters, outcome, pc, gw,
                 heap, invocations, returned, wait, validation>>

\* "CRITICAL: Must return this exact format"
ActionGroupReturn ==
  /\ lam.pc = "respond"
  /\ lam' = [lam EXCEPT
               !.pc = "returned",
               !.response = action_group_response(lam.event, lam.result)]
  /\ UNCHANGED <<mapper, operation_id, bedrock_parameters, outcome, pc, gw,
                 heap, invocations, returned, wait, validation>>

NextLambda ==
  TemplateTry \/ TemplateExcept \/ ActionGroupPerform \/ ActionGroupReturn

SpecLambda == InitLambda /\ [][NextLambda]_vars

---------------------------------------------------------------------------
(* C15 *)

LambdaEnded(handler) ==
  lam.handler = handler /\ lam.pc \in {"returned", "raised"}

\* the call of map_parameters the handler made failed for an unknown
\* operation or a missing required parameter
MapperFailed ==
  /\ template_try(lam.event).raised = "ValueError"
  /\ template_try(lam.event).message
       \in {"Unknown operation", "Missing required parameter"}

\* C15 as claimed: when map_parameters fails in the template's
\* lambda_handler, the handler returns the envelope with a status code
\* outside 200..299 and a string as the body.
C15_MapperFailureAnswered ==
  ( LambdaEnded("parameter-mapper") /\ MapperFailed )
  => /\ lam.pc = "returned"
     /\ lam.response # None
     /\ lam.response.messageVersion = PyStr(<<"1",".","0">>)
     /\ lam.response.response.httpStatusCode.t = "int"
     /\ lam.response.response.httpStatusCode.n \notin 200..299
     /\ lam.response.response.responseBody["application/json"].body.t
          = "str"

---------------------------------------------------------------------------
(* C16 *)

UnknownAction ==
  json_dumps(PyDict(<< <<<<"e","r","r","o","r">>, PyStr(<<"U","n","k","n","o","w","n"," ","a","c","t","i","o","n">>)>> >>))

\* C16 as claimed: the action-group lambda_handler returns the envelope for
\* every event, with the event's actionGroup, apiPath and httpMethod,
\* status 200 and a JSON string as the body, which for an apiPath other
\* than '/check-security-status' is the text of {'error': 'Unknown action'}.
C16_EnvelopeForEveryPath ==
  LambdaEnded("action-group")
  => /\ lam.pc = "returned"
     /\ lam.response # None
     /\ lam.response.messageVersion = PyStr(<<"1",".","0">>)
     /\ lam.response.response.actionGroup
          = event_get(lam.event, "actionGroup")
     /\ lam.response.response.apiPath = event_get(lam.event, "apiPath")
     /\ lam.response.response.httpMethod
          = event_get(lam.event, "httpMethod")
     /\ lam.response.response.httpStatusCode = PyInt(200)
     /\ lam.response.response.responseBody["application/json"].body.t
          = "str"
     /\ event_get(lam.event, "apiPath") # PyStr(<<"/","c","h","e","c","k","-","s","e","c","u","r","i","t","y","-","s","t","a","t","u","s">>)
          => lam.response.response.responseBody["application/json"].body
               = UnknownAction
---------------------------------------------------------------------------
(* C26, C27, C28: the gateway proxy's requests and status codes *)

\* the token request was answered with status 200
TokenStatus200 ==
  gw.token_reply.error = "" /\ gw.token_reply.status_code = 200

\* the gateway request was answered with status 200
GatewayStatus200 ==
  gw.gateway_reply.error = "" /\ gw.gateway_reply.status_code = 200

\* C26: the gateway request is issued only after a token request returned
\* status 200; an invocation issues at most one token request and at most
\* one gateway request; an event without actionGroup issues neither.
C26_RequestsInOrderAtMostOnce ==
  /\ gw.token_requests <= 1
  /\ gw.gateway_requests <= 1
  /\ gw.gateway_requests = 1 => gw.token_requests = 1 /\ TokenStatus200
  /\ "actionGroup" \notin DOMAIN gw.event
       => gw.token_requests = 0 /\ gw.gateway_requests = 0

\* C26: a request is only ever issued by the step that follows the event's
\* validation (token) or the token's answer (gateway), one at a time.
C26_RequestSteps ==
  [][/\ gw'.token_requests # gw.token_requests
          => /\ gw.pc = "start" /\ gw.token_requests = 0
             /\ gw'.token_requests = 1
             /\ "actionGroup" \in DOMAIN gw.event
     /\ gw'.gateway_requests # gw.gateway_requests
          => /\ gw.pc = "token" /\ gw.gateway_requests = 0
             /\ gw'.gateway_requests = 1
             /\ gw'.token_reply.status_code = 200]_vars

\* an invocation that issued both requests and returned, and one that
\* stopped at a token answer of 401
C26_Witness ==
  /\ gw.pc = "returned"
  /\ gw.token_requests = 1 /\ gw.gateway_requests = 1

C26_WitnessNoGateway ==
  /\ gw.pc = "returned"
  /\ gw.token_reply.status_code = 401
  /\ gw.token_requests = 1 /\ gw.gateway_requests = 0

\* an exception is raised inside the try block: a request fails, the token
\* answer has no access_token to subscript, the parameters cannot be
\* iterated or read, the operation id cannot be hashed, or the gateway's
\* answer is not a JSON object
ExceptionRaised ==
  \/ gw.token_reply.error # ""
  \/ /\ TokenStatus200
     /\ \/ gw.token_reply.json.raised # ""
        \/ gw.token_reply.json.value.t # "dict"
        \/ ~py_has(gw.token_reply.json.value, <<"a","c","c","e","s","s","_","t","o","k","e","n">>)
        \/ /\ "parameters" \in DOMAIN gw.event
           /\ \/ gw.event["parameters"].t # "list"
              \/ \E i \in 1..Len(gw.event["parameters"].l) :
                   gw.event["parameters"].l[i].t # "dict"
        \/ gw.event["actionGroup"].t \in {"list", "dict"}
  \/ gw.gateway_reply.error # ""
  \/ /\ GatewayStatus200
     /\ \/ gw.gateway_reply.json.raised # ""
        \/ gw.gateway_reply.json.value.t # "dict"

\* the text is the serialization of an object whose one field is 'error'
IsErrorObject(body) ==
  /\ body.t = "str"
  /\ Len(body.s) >= 13
  /\ SubSeq(body.s, 1, 11) = <<"{", "\"", "e", "r", "r", "o", "r", "\"", ":", " ", "\"">>
  /\ SubSeq(body.s, Len(body.s) - 1, Len(body.s)) = <<"\"", "}">>

\* C27: the handler returns httpStatusCode 200 if and only if the event has
\* actionGroup, the token request returned 200, the gateway request returned
\* 200 and no exception was raised; in every other case it returns 500 with
\* a body that serializes an object with an 'error' field.
C27_Status200Iff ==
  gw.pc = "returned"
  => LET r    == gw.response.response
         body == r.responseBody["application/json"].body
         ok   == /\ "actionGroup" \in DOMAIN gw.event
                 /\ TokenStatus200
                 /\ GatewayStatus200
                 /\ ~ExceptionRaised
     IN  /\ r.httpStatusCode = PyInt(200) <=> ok
         /\ ~ok => r.httpStatusCode = PyInt(500) /\ IsErrorObject(body)

\* both requests were answered 200 and the gateway's answer was not JSON:
\* the exception makes the status 500
C27_Witness ==
  /\ gw.pc = "returned"
  /\ TokenStatus200 /\ GatewayStatus200
  /\ gw.gateway_reply.json.raised # ""
  /\ gw.response.response.httpStatusCode = PyInt(500)

\* both requests answered 200 with no exception: the status is 200
C27_Witness200 ==
  /\ gw.pc = "returned"
  /\ TokenStatus200 /\ GatewayStatus200 /\ ~ExceptionRaised
  /\ gw.response.response.httpStatusCode = PyInt(200)

\* the inbound parameter list of the event, [] when the key is absent
InboundParameters ==
  IF "parameters" \in DOMAIN gw.event THEN gw.event["parameters"]
                                      ELSE PyList(<<>>)

\* the inbound parameters are a list of name/value objects
InboundWellFormed ==
  /\ InboundParameters.t = "list"
  /\ \A i \in 1..Len(InboundParameters.l) : InboundParameters.l[i].t = "dict"

\* an inbound parameter of this name exists, and the value of the last one
InboundHas(name) ==
  \E i \in 1..Len(InboundParameters.l) :
    py_get(InboundParameters.l[i], <<"n","a","m","e">>, None) = PyStr(name)

InboundLast(name) ==
  LET last == CHOOSE i \in 1..Len(InboundParameters.l) :
                /\ py_get(InboundParameters.l[i], <<"n","a","m","e">>, None) = PyStr(name)
                /\ \A j \in (i + 1)..Len(InboundParameters.l) :
                     py_get(InboundParameters.l[j], <<"n","a","m","e">>, None)
                       # PyStr(name)
  IN  py_get(InboundParameters.l[last], <<"v","a","l","u","e">>, None)

\* the tool name and the arguments of the request sent to the gateway
SentName == py_get(py_get(gw.mcp_request, <<"p","a","r","a","m","s">>, None), <<"n","a","m","e">>, None)

SentArguments ==
  py_get(py_get(gw.mcp_request, <<"p","a","r","a","m","s">>, None), <<"a","r","g","u","m","e","n","t","s">>, None)

\* the operation id is a string that tool_name_map has no entry for
OperationUnmapped ==
  /\ "actionGroup" \in DOMAIN gw.event
  /\ gw.event["actionGroup"].t = "str"
  /\ \A i \in 1..Len(tool_name_map) :
       tool_name_map[i][1] # gw.event["actionGroup"].s

\* the token answer carries an access token
TokenGranted ==
  /\ TokenStatus200
  /\ gw.token_reply.json.raised = ""
  /\ gw.token_reply.json.value.t = "dict"
  /\ py_has(gw.token_reply.json.value, <<"a","c","c","e","s","s","_","t","o","k","e","n">>)

\* C28: an operation id absent from tool_name_map is not rejected: the call
\* is forwarded to the gateway under 'SecurityMCPTools___' followed by the
\* operation id, with only the inbound region, severity (as severity_filter)
\* and service (as the one-element list services); every other inbound
\* parameter is dropped.
C28_UnmappedOperationForwarded ==
  ( /\ gw.pc \in {"gateway", "returned"}
    /\ OperationUnmapped /\ TokenGranted /\ InboundWellFormed )
  => /\ gw.gateway_requests = 1
     /\ SentName = PyStr(<<"S","e","c","u","r","i","t","y","M","C","P","T","o","o","l","s","_","_","_">> \o gw.event["actionGroup"].s)
     /\ SentArguments.t = "dict"
     /\ \A i \in 1..Len(SentArguments.d) :
          SentArguments.d[i][1]
            \in {<<"r","e","g","i","o","n">>, <<"s","e","v","e","r","i","t","y","_","f","i","l","t","e","r">>, <<"s","e","r","v","i","c","e","s">>}
     /\ py_has(SentArguments, <<"r","e","g","i","o","n">>) <=> InboundHas(<<"r","e","g","i","o","n">>)
     /\ py_has(SentArguments, <<"s","e","v","e","r","i","t","y","_","f","i","l","t","e","r">>) <=> InboundHas(<<"s","e","v","e","r","i","t","y">>)
     /\ py_has(SentArguments, <<"s","e","r","v","i","c","e","s">>) <=> InboundHas(<<"s","e","r","v","i","c","e">>)
     /\ InboundHas(<<"r","e","g","i","o","n">>)
          => py_get(SentArguments, <<"r","e","g","i","o","n">>, None) = InboundLast(<<"r","e","g","i","o","n">>)
     /\ InboundHas(<<"s","e","v","e","r","i","t","y">>)
          => py_get(SentArguments, <<"s","e","v","e","r","i","t","y","_","f","i","l","t","e","r">>, None)
               = InboundLast(<<"s","e","v","e","r","i","t","y">>)
     /\ InboundHas(<<"s","e","r","v","i","c","e">>)
          => py_get(SentArguments, <<"s","e","r","v","i","c","e","s">>, None)
               = PyList(<<InboundLast(<<"s","e","r","v","i","c","e">>)>>)

\* getSecurityFindings, which the map lacks, sent with region, severity,
\* service and maxFindings: maxFindings is not among the arguments
C28_Witness ==
  /\ gw.gateway_requests = 1
  /\ OperationUnmapped
  /\ gw.event["actionGroup"] = PyStr(<<"g","e","t","S","e","c","u","r","i","t","y","F","i","n","d","i","n","g","s">>)
  /\ InboundWellFormed
  /\ InboundHas(<<"m","a","x","F","i","n","d","i","n","g","s">>)
  /\ SentName = PyStr(<<"S","e","c","u","r","i","t","y","M","C","P","T","o","o","l","s","_","_","_","g","e","t","S","e","c","u","r","i","t","y","F","i","n","d","i","n","g","s">>)
  /\ Len(SentArguments.d) = Cardinality({"region", "severity", "service"})
---------------------------------------------------------------------------
(* scripts/wait-for-agent-ready.py: wait_for_agent_ready. The agent's       *)
(* status at each poll and the time each poll takes are the environment's.  *)

MaxTimeout == 16

MaxPollSeconds == 1

MaxHistory == 4

\* "Must be PREPARED for 3 consecutive checks"
required_stable_checks == 3

\* time.sleep(5)
sleep_seconds == 5

\* the timeout argument, in seconds
Timeouts == (0 - 1)..MaxTimeout

\* what bedrock.get_agent and the reading of response['agent']['agentStatus']
\* give: a status, or an exception
StatusIs(status) == [raised |-> "", status |-> status]

Raises(exc) == [raised |-> exc, status |-> ""]

PollOutcomes ==
  {StatusIs(s) : s \in {"PREPARED", "PREPARING", "FAILED", "NOT_PREPARED"}}
    \cup {Raises(e) : e \in {"ClientError", "KeyError"}}

\* the body of the loop treating FAILED as one more unexpected status
after_poll_ignoring_failed(stable_count, poll) ==
  IF poll.raised # ""
    THEN [returns |-> TRUE, result |-> PyBool(FALSE),
          stable_count |-> stable_count]
  ELSE IF poll.status = "PREPARED"
    THEN IF stable_count + 1 >= required_stable_checks
           THEN [returns |-> TRUE, result |-> PyBool(TRUE),
                 stable_count |-> stable_count + 1]
           ELSE [returns |-> FALSE, result |-> None,
                 stable_count |-> stable_count + 1]
  ELSE [returns |-> FALSE, result |-> None, stable_count |-> 0]

\* the body of the loop keeping the stable count over a PREPARING poll
after_poll_without_reset(stable_count, poll) ==
  IF poll.raised # ""
    THEN [returns |-> TRUE, result |-> PyBool(FALSE),
          stable_count |-> stable_count]
  ELSE IF poll.status = "PREPARED"
    THEN IF stable_count + 1 >= required_stable_checks
           THEN [returns |-> TRUE, result |-> PyBool(TRUE),
                 stable_count |-> stable_count + 1]
           ELSE [returns |-> FALSE, result |-> None,
                 stable_count |-> stable_count + 1]
  ELSE IF poll.status = "PREPARING"
    THEN [returns |-> FALSE, result |-> None, stable_count |-> stable_count]
  ELSE IF poll.status = "FAILED"
    THEN [returns |-> TRUE, result |-> PyBool(FALSE),
          stable_count |-> stable_count]
  ELSE [returns |-> FALSE, result |-> None, stable_count |-> 0]

\* the body of the loop, from the poll's outcome to the sleep or the return
after_poll(stable_count, poll) ==
  IF poll.raised # ""
    THEN [returns |-> TRUE, result |-> PyBool(FALSE),
          stable_count |-> stable_count]
  ELSE IF poll.status = "PREPARED"
    THEN IF stable_count + 1 >= required_stable_checks
           THEN [returns |-> TRUE, result |-> PyBool(TRUE),
                 stable_count |-> stable_count + 1]
           ELSE [returns |-> FALSE, result |-> None,
                 stable_count |-> stable_count + 1]
  ELSE IF poll.status = "PREPARING"
    THEN [returns |-> FALSE, result |-> None, stable_count |-> 0]
  ELSE IF poll.status = "FAILED"
    THEN [returns |-> TRUE, result |-> PyBool(FALSE),
          stable_count |-> stable_count]
  ELSE [returns |-> FALSE, result |-> None, stable_count |-> 0]

\* the last MaxHistory polls, the newest last
remember(recent, poll) ==
  LET all == Append(recent, poll)
  IN  IF Len(all) > MaxHistory THEN Tail(all) ELSE all

InitWait ==
  /\ wait \in {[pc |-> "loop", timeout |-> t, elapsed |-> 0,
                stable_count |-> 0, recent |-> <<>>, instant |-> TRUE,
                result |-> None] : t \in Timeouts}
  /\ mapper = "complete"
  /\ operation_id = ""
  /\ bedrock_parameters = <<>>
  /\ outcome = NotCalled
  /\ pc = "idle"
  /\ gw = GwIdle
  /\ heap = <<>>
  /\ invocations = <<>>
  /\ returned = <<>>
  /\ lam = LamIdle
  /\ validation = ValidationIdle

\* "while time.time() - start_time < timeout" passing the test at or before
\* the timeout
Check_at_or_before_timeout ==
  /\ wait.pc = "loop"
  /\ wait' = IF wait.elapsed <= wait.timeout
               THEN [wait EXCEPT !.pc = "poll"]
               ELSE [wait EXCEPT !.pc = "returned",
                                 !.result = PyBool(FALSE)]
  /\ UNCHANGED <<mapper, operation_id, bedrock_parameters, outcome, pc, gw,
               heap, invocations, returned, lam, validation>>

\* "while time.time() - start_time < timeout": the next poll is issued, or
\* the function returns False after the loop
Check ==
  /\ wait.pc = "loop"
  /\ wait' = IF wait.elapsed < wait.timeout
               THEN [wait EXCEPT !.pc = "poll"]
               ELSE [wait EXCEPT !.pc = "returned",
                                 !.result = PyBool(FALSE)]
  /\ UNCHANGED <<mapper, operation_id, bedrock_parameters, outcome, pc, gw,
               heap, invocations, returned, lam, validation>>

\* the poll is answered after some seconds and the loop body runs
PollReply ==
  /\ wait.pc = "poll"
  /\ \E poll \in PollOutcomes, seconds \in 0..MaxPollSeconds :
       LET next == after_poll(wait.stable_count, poll)
       IN  wait' = [wait EXCEPT
                      !.pc = IF next.returns THEN "returned" ELSE "sleep",
                      !.elapsed = wait.elapsed + seconds,
                      !.stable_count = next.stable_count,
                      !.recent = remember(wait.recent, poll),
                      !.instant = wait.instant /\ seconds = 0,
                      !.result = next.result]
  /\ UNCHANGED <<mapper, operation_id, bedrock_parameters, outcome, pc, gw,
               heap, invocations, returned, lam, validation>>

\* time.sleep(5) returning with the clock where it was
Sleep_without_clock ==
  /\ wait.pc = "sleep"
  /\ wait' = [wait EXCEPT !.pc = "loop"]
  /\ UNCHANGED <<mapper, operation_id, bedrock_parameters, outcome, pc, gw,
               heap, invocations, returned, lam, validation>>

\* time.sleep(5)
Sleep ==
  /\ wait.pc = "sleep"
  /\ wait' = [wait EXCEPT !.pc = "loop",
                          !.elapsed = wait.elapsed + sleep_seconds]
  /\ UNCHANGED <<mapper, operation_id, bedrock_parameters, outcome, pc, gw,
               heap, invocations, returned, lam, validation>>

NextWait == Check \/ PollReply \/ Sleep

SpecWait == InitWait /\ [][NextWait]_vars

\* the function runs on: each statement that can execute does
SpecWaitLive == InitWait /\ [][NextWait]_vars /\ WF_vars(NextWait)

---------------------------------------------------------------------------
(* C22 .. C25 *)

Prepared == StatusIs("PREPARED")

WaitReturned(b) == wait.pc = "returned" /\ wait.result = PyBool(b)

\* the polls remembered are all the polls made
WholeHistory == Len(wait.recent) < MaxHistory

\* how many of the most recent polls, counted back from the last, are
\* PREPARED
RECURSIVE TrailingPrepared(_)
TrailingPrepared(polls) ==
  IF polls = <<>> \/ polls[Len(polls)] # Prepared THEN 0
  ELSE 1 + TrailingPrepared(SubSeq(polls, 1, Len(polls) - 1))

\* C22: wait_for_agent_ready returns True only when the three most recent
\* polls all returned PREPARED with nothing else between them; while the
\* function runs, the stable count is the number of PREPARED polls since the
\* last poll of another status, so that PREPARED, PREPARED, PREPARING,
\* PREPARED has a count of 1 and has not returned True.
C22_TrueOnlyAfterThreePrepared ==
  /\ WaitReturned(TRUE)
       => /\ Len(wait.recent) >= 3
          /\ \A i \in (Len(wait.recent) - 2)..Len(wait.recent) :
               wait.recent[i] = Prepared
  /\ wait.pc \in {"loop", "sleep", "poll"}
       => /\ wait.stable_count = TrailingPrepared(wait.recent)
          /\ wait.stable_count < 3
  /\ wait.recent = <<Prepared, Prepared, StatusIs("PREPARING"), Prepared>>
       => /\ ~WaitReturned(TRUE)
          /\ wait.stable_count = 1

\* PREPARED, PREPARED, PREPARING, PREPARED has been polled
C22_Witness ==
  /\ wait.recent = <<Prepared, Prepared, StatusIs("PREPARING"), Prepared>>
  /\ wait.pc = "sleep"

\* True was returned after a poll of another status and three PREPARED
C22_WitnessTrue ==
  /\ WaitReturned(TRUE)
  /\ wait.recent = <<StatusIs("NOT_PREPARED"), Prepared, Prepared, Prepared>>

\* C23: wait_for_agent_ready terminates for any sequence of agent statuses:
\* it eventually returns True or False; it returns False when the loop test
\* finds the elapsed time at or past the timeout; and no poll is issued once
\* the elapsed time is at or past the timeout.
C23_Terminates ==
  /\ <>(WaitReturned(TRUE) \/ WaitReturned(FALSE))
  /\ [](wait.pc = "poll" => wait.elapsed < wait.timeout)
  /\ [][(wait.pc = "loop" /\ wait.elapsed >= wait.timeout)
          => (wait'.pc = "returned" /\ wait'.result = PyBool(FALSE))]_vars

\* the timeout was reached with the agent PREPARED twice, then PREPARING
C23_Witness ==
  /\ WaitReturned(FALSE)
  /\ wait.elapsed >= wait.timeout
  /\ wait.timeout > 10
  /\ wait.recent = <<Prepared, Prepared, StatusIs("PREPARING")>>

\* the last poll returned FAILED or raised
LastPollFails ==
  /\ wait.recent # <<>>
  /\ LET last == wait.recent[Len(wait.recent)]
     IN  last.raised # "" \/ last.status = "FAILED"

\* C24: a poll that returns FAILED, or that raises, makes the function
\* return False at once, whatever the stable count was; nothing runs after
\* the return, so no further poll is made.
C24_FailedOrRaisedReturnsFalse ==
  /\ LastPollFails => WaitReturned(FALSE)
  /\ wait.pc = "returned" => ~ENABLED NextWait

\* FAILED at the third poll, after two PREPARED polls
C24_Witness ==
  /\ WaitReturned(FALSE)
  /\ wait.stable_count = 2
  /\ wait.recent = <<Prepared, Prepared, StatusIs("FAILED")>>

\* an exception at the third poll, after two PREPARED polls
C24_WitnessRaised ==
  /\ WaitReturned(FALSE)
  /\ wait.stable_count = 2
  /\ wait.recent = <<Prepared, Prepared, Raises("ClientError")>>

\* every poll made returned PREPARED
AlwaysPrepared ==
  /\ WholeHistory
  /\ \A i \in 1..Len(wait.recent) : wait.recent[i] = Prepared

\* C25: with instantaneous polls and 5 seconds per sleep, for an agent that
\* is PREPARED at every poll the function returns True if and only if
\* timeout > 10; with timeout <= 10 it returns False.
C25_TrueIffTimeoutAboveTen ==
  (wait.pc = "returned" /\ wait.instant /\ AlwaysPrepared)
  => /\ wait.result = PyBool(TRUE) <=> wait.timeout > 10
     /\ wait.timeout <= 10 => wait.result = PyBool(FALSE)

\* timeout 10: two PREPARED polls, at 0 s and 5 s, and False at 10 s
C25_Witness ==
  /\ WaitReturned(FALSE)
  /\ wait.instant /\ AlwaysPrepared
  /\ wait.timeout = 10
  /\ Len(wait.recent) = 2

\* timeout 11: the third PREPARED poll, at 10 s, returns True
C25_WitnessTrue ==
  /\ WaitReturned(TRUE)
  /\ wait.instant /\ AlwaysPrepared
  /\ wait.timeout = 11
  /\ wait.elapsed = 10
---------------------------------------------------------------------------
(* scripts/validate-action-group-response.py: validate_response. The text   *)
(* of an error is kept without its leading mark and without the value it    *)
(* quotes.                                                                  *)

\* json.loads(text) for a str: where the decoder's scanner stops. An index
\* is the position of the next character to read; 0 is a JSONDecodeError.
json_whitespace == {" ", "\t", "\n", "\r"}

json_digits == {"0", "1", "2", "3", "4", "5", "6", "7", "8", "9"}

json_hex_digits ==
  json_digits \cup {"a", "b", "c", "d", "e", "f", "A", "B", "C", "D", "E", "F"}

RECURSIVE skip_whitespace(_, _)
skip_whitespace(s, i) ==
  IF i <= Len(s) /\ s[i] \in json_whitespace THEN skip_whitespace(s, i + 1)
  ELSE i

starts_with(s, i, word) ==
  /\ i + Len(word) - 1 <= Len(s)
  /\ SubSeq(s, i, i + Len(word) - 1) = word

RECURSIVE digits_end(_, _)
digits_end(s, i) ==
  IF i <= Len(s) /\ s[i] \in json_digits THEN digits_end(s, i + 1) ELSE i

\* NUMBER_RE: (-?(?:0|[1-9][0-9]*))(\.[0-9]+)?([eE][-+]?[0-9]+)?
number_end(s, i) ==
  LET first == IF i <= Len(s) /\ s[i] = "-" THEN i + 1 ELSE i
      integer_end ==
        IF first > Len(s) THEN 0
        ELSE IF s[first] = "0" THEN first + 1
        ELSE IF s[first] \in json_digits THEN digits_end(s, first + 1)
        ELSE 0
      fraction_end ==
        IF /\ integer_end <= Len(s) /\ s[integer_end] = "."
           /\ digits_end(s, integer_end + 1) > integer_end + 1
          THEN digits_end(s, integer_end + 1)
          ELSE integer_end
      sign_end ==
        IF fraction_end + 1 <= Len(s) /\ s[fraction_end + 1] \in {"-", "+"}
          THEN fraction_end + 2 ELSE fraction_end + 1
      exponent_end ==
        IF /\ fraction_end <= Len(s) /\ s[fraction_end] \in {"e", "E"}
           /\ digits_end(s, sign_end) > sign_end
          THEN digits_end(s, sign_end)
          ELSE fraction_end
  IN  IF integer_end = 0 THEN 0 ELSE exponent_end

\* py_scanstring from the character after the opening quote (strict)
RECURSIVE string_end(_, _)
string_end(s, i) ==
  IF i > Len(s) THEN 0
  ELSE IF s[i] = "\"" THEN i + 1
  ELSE IF s[i] \in {"\n", "\t", "\r"} THEN 0
  ELSE IF s[i] # "\\" THEN string_end(s, i + 1)
  ELSE IF i + 1 > Len(s) THEN 0
  ELSE IF s[i + 1] \in {"\"", "\\", "/", "b", "f", "n", "r", "t"}
    THEN string_end(s, i + 2)
  ELSE IF /\ s[i + 1] = "u" /\ i + 5 <= Len(s)
          /\ \A k \in (i + 2)..(i + 5) : s[k] \in json_hex_digits
    THEN string_end(s, i + 6)
  ELSE 0

RECURSIVE value_end(_, _)
RECURSIVE array_items_end(_, _)
RECURSIVE object_pairs_end(_, _)

\* JSONArray after a value is expected at i
array_items_end(s, i) ==
  LET item == value_end(s, i)
      next == skip_whitespace(s, item)
  IN  IF item = 0 \/ next > Len(s) THEN 0
      ELSE IF s[next] = "]" THEN next + 1
      ELSE IF s[next] = "," THEN array_items_end(s, skip_whitespace(s, next + 1))
      ELSE 0

\* JSONObject from the opening quote of a key at i
object_pairs_end(s, i) ==
  LET key   == IF i <= Len(s) /\ s[i] = "\"" THEN string_end(s, i + 1) ELSE 0
      colon == skip_whitespace(s, key)
      item  == IF key = 0 \/ colon > Len(s) \/ s[colon] # ":" THEN 0
               ELSE value_end(s, skip_whitespace(s, colon + 1))
      next  == skip_whitespace(s, item)
  IN  IF item = 0 \/ next > Len(s) THEN 0
      ELSE IF s[next] = "}" THEN next + 1
      ELSE IF s[next] = "," THEN object_pairs_end(s, skip_whitespace(s, next + 1))
      ELSE 0

\* scan_once
value_end(s, i) ==
  IF i > Len(s) THEN 0
  ELSE IF s[i] = "\"" THEN string_end(s, i + 1)
  ELSE IF s[i] = "{"
    THEN LET first == skip_whitespace(s, i + 1)
         IN  IF first <= Len(s) /\ s[first] = "}" THEN first + 1
             ELSE object_pairs_end(s, first)
  ELSE IF s[i] = "["
    THEN LET first == skip_whitespace(s, i + 1)
         IN  IF first <= Len(s) /\ s[first] = "]" THEN first + 1
             ELSE array_items_end(s, first)
  ELSE IF starts_with(s, i, <<"n","u","l","l">>) THEN i + Len(<<"n","u","l","l">>)
  ELSE IF starts_with(s, i, <<"t","r","u","e">>) THEN i + Len(<<"t","r","u","e">>)
  ELSE IF starts_with(s, i, <<"f","a","l","s","e">>) THEN i + Len(<<"f","a","l","s","e">>)
  ELSE IF number_end(s, i) # 0 THEN number_end(s, i)
  ELSE IF starts_with(s, i, <<"N","a","N">>) THEN i + Len(<<"N","a","N">>)
  ELSE IF starts_with(s, i, <<"I","n","f","i","n","i","t","y">>) THEN i + Len(<<"I","n","f","i","n","i","t","y">>)
  ELSE IF starts_with(s, i, <<"-","I","n","f","i","n","i","t","y">>) THEN i + Len(<<"-","I","n","f","i","n","i","t","y">>)
  ELSE 0

\* json.loads(text) returns: one value, whitespace around it, nothing else
json_loads_returns(text) ==
  LET end == value_end(text, skip_whitespace(text, 1))
  IN  end # 0 /\ skip_whitespace(text, end) = Len(text) + 1

\* "x in container" and container[key] for a str key
\* str: a substring test; list: an item test; dict: a key test
RECURSIVE is_substring(_, _)
is_substring(word, s) ==
  \/ starts_with(s, 1, word)
  \/ s # <<>> /\ is_substring(word, Tail(s))

contains(container, key) ==
  CASE container.t = "dict" -> Returned(PyBool(py_has(container, key)))
    [] container.t = "list" ->
         Returned(PyBool(\E i \in 1..Len(container.l) :
                           container.l[i] = PyStr(key)))
    [] container.t = "str"  -> Returned(PyBool(is_substring(key, container.s)))
    [] OTHER -> Throw("TypeError",
                      <<"a","r","g","u","m","e","n","t"," ","o","f"," ","t","y","p","e"," ","'">> \o type_name(container)
                        \o <<"'"," ","i","s"," ","n","o","t"," ","i","t","e","r","a","b","l","e">>)

subscript(container, key) ==
  CASE container.t = "dict" -> Returned(py_get(container, key, None))
    [] container.t = "str"  ->
         Throw("TypeError", <<"s","t","r","i","n","g"," ","i","n","d","i","c","e","s"," ","m","u","s","t"," ","b","e"," ","i","n","t","e","g","e","r","s",","," ","n","o","t"," ","'","s","t","r","'">>)
    [] container.t = "list" ->
         Throw("TypeError",
               <<"l","i","s","t"," ","i","n","d","i","c","e","s"," ","m","u","s","t"," ","b","e"," ","i","n","t","e","g","e","r","s"," ","o","r"," ","s","l","i","c","e","s",","," ","n","o","t"," ","s","t","r">>)

\* "Required fields in response"
required ==
  <<<<"a","c","t","i","o","n","G","r","o","u","p">>, <<"a","p","i","P","a","t","h">>, <<"h","t","t","p","M","e","t","h","o","d">>, <<"h","t","t","p","S","t","a","t","u","s","C","o","d","e">>,
    <<"r","e","s","p","o","n","s","e","B","o","d","y">>>>

usual_status_codes == {200, 400, 404, 500}

\* the value validate_response returns, or the exception it raises with
\* the errors collected so far
Validated(errors) == [raised |-> "", errors |-> errors]

ValidationRaises(failure, errors) ==
  [raised |-> failure.raised, errors |-> errors]

\* "Required: messageVersion"
check_message_version(response) ==
  IF ~py_has(response, <<"m","e","s","s","a","g","e","V","e","r","s","i","o","n">>)
    THEN <<"Missing required field: 'messageVersion'">>
  ELSE IF py_get(response, <<"m","e","s","s","a","g","e","V","e","r","s","i","o","n">>, None) # PyStr(<<"1",".","0">>)
    THEN <<"messageVersion must be '1.0'">>
  ELSE <<>>

\* "for field in required": the fields reported, or the exception of the
\* first membership test
RECURSIVE check_required(_, _)
check_required(resp, fields) ==
  IF fields = <<>> THEN Returned(<<>>)
  ELSE LET here == contains(resp, Head(fields))
           rest == check_required(resp, Tail(fields))
       IN  IF here.raised # "" THEN here
           ELSE IF here.value.b THEN rest
           ELSE Returned(<<"Missing required field in response">>
                           \o rest.value)

\* "Validate httpStatusCode"
check_status_code(resp) ==
  LET has == contains(resp, <<"h","t","t","p","S","t","a","t","u","s","C","o","d","e">>)
      got == subscript(resp, <<"h","t","t","p","S","t","a","t","u","s","C","o","d","e">>)
  IN  IF has.raised # "" THEN has
      ELSE IF ~has.value.b THEN Returned(<<>>)
      ELSE IF got.raised # "" THEN got
      ELSE IF got.value.t \notin {"int", "bool"}
        THEN Returned(<<"httpStatusCode must be integer">>)
      ELSE IF (IF got.value.t = "bool"
                 THEN IF got.value.b THEN 1 ELSE 0
                 ELSE got.value.n) \notin usual_status_codes
        THEN Returned(<<"Unusual httpStatusCode">>)
      ELSE Returned(<<>>)

\* "Body must be a JSON STRING, not dict"
check_body(body) ==
  IF body.t # "str"
    THEN <<"CRITICAL: body must be JSON STRING",
           "Fix: Use json.dumps() on your data before returning">>
  ELSE IF ~json_loads_returns(body.s)
    THEN <<"body is not valid JSON">>
  ELSE <<>>

\* "Validate responseBody structure"
check_response_body(resp) ==
  LET has  == contains(resp, <<"r","e","s","p","o","n","s","e","B","o","d","y">>)
      got  == subscript(resp, <<"r","e","s","p","o","n","s","e","B","o","d","y">>)
      json_body == py_get(got.value, <<"a","p","p","l","i","c","a","t","i","o","n","/","j","s","o","n">>, None)
      has_body  == contains(json_body, <<"b","o","d","y">>)
      body == subscript(json_body, <<"b","o","d","y">>)
  IN  IF has.raised # "" THEN has
      ELSE IF ~has.value.b THEN Returned(<<>>)
      ELSE IF got.raised # "" THEN got
      ELSE IF got.value.t # "dict"
        THEN Returned(<<"responseBody must be a dictionary">>)
      ELSE IF ~py_has(got.value, <<"a","p","p","l","i","c","a","t","i","o","n","/","j","s","o","n">>)
        THEN Returned(<<"responseBody must contain 'application/json' key">>)
      ELSE IF has_body.raised # "" THEN has_body
      ELSE IF ~has_body.value.b
        THEN Returned(<<"responseBody['application/json'] must contain 'body' key">>)
      ELSE IF body.raised # "" THEN body
      ELSE Returned(check_body(body.value))

validate_response(response) ==
  IF response.t # "dict"
    THEN Validated(<<"Response must be a dictionary">>)
  ELSE
    LET version == check_message_version(response)
        resp    == py_get(response, <<"r","e","s","p","o","n","s","e">>, None)
        fields  == check_required(resp, required)
        status  == check_status_code(resp)
        body    == check_response_body(resp)
    IN  IF ~py_has(response, <<"r","e","s","p","o","n","s","e">>)
          THEN Validated(version \o <<"Missing required field: 'response'">>)
        ELSE IF fields.raised # ""
          THEN ValidationRaises(fields, version)
        ELSE IF status.raised # ""
          THEN ValidationRaises(status, version \o fields.value)
        ELSE IF body.raised # ""
          THEN ValidationRaises(body,
                                version \o fields.value \o status.value)
        ELSE Validated(version \o fields.value \o status.value
                         \o body.value)

\* json.dumps({"status": "success", "findings": []})
valid_body ==
  json_dumps(PyDict(<< <<<<"s","t","a","t","u","s">>, PyStr(<<"s","u","c","c","e","s","s">>)>>,
                       <<<<"f","i","n","d","i","n","g","s">>, PyList(<<>>)>> >>))

\* a dict of the entries that are present
DictOf(pairs) == PyDict(SelectSeq(pairs, LAMBDA p : p[2] # Absent))

ResponseBodyOf(body) ==
  PyDict(<< <<<<"a","p","p","l","i","c","a","t","i","o","n","/","j","s","o","n">>, DictOf(<< <<<<"b","o","d","y">>, body>> >>)>> >>)

ResponseOf(actionGroup, apiPath, httpMethod, httpStatusCode, responseBody) ==
  DictOf(<< <<<<"a","c","t","i","o","n","G","r","o","u","p">>, actionGroup>>,
            <<<<"a","p","i","P","a","t","h">>, apiPath>>,
            <<<<"h","t","t","p","M","e","t","h","o","d">>, httpMethod>>,
            <<<<"h","t","t","p","S","t","a","t","u","s","C","o","d","e">>, httpStatusCode>>,
            <<<<"r","e","s","p","o","n","s","e","B","o","d","y">>, responseBody>> >>)

EnvelopeOf(messageVersion, response) ==
  DictOf(<< <<<<"m","e","s","s","a","g","e","V","e","r","s","i","o","n">>, messageVersion>>,
            <<<<"r","e","s","p","o","n","s","e">>, response>> >>)

VALID_EXAMPLE ==
  EnvelopeOf(PyStr(<<"1",".","0">>),
             ResponseOf(PyStr(<<"S","e","c","u","r","i","t","y","A","c","t","i","o","n","s">>),
                        PyStr(<<"/","c","h","e","c","k","-","s","e","c","u","r","i","t","y","-","s","t","a","t","u","s">>),
                        PyStr(<<"P","O","S","T">>), PyInt(200),
                        ResponseBodyOf(valid_body)))

INVALID_EXAMPLES ==
  << EnvelopeOf(Absent,
                ResponseOf(PyStr(<<"t","e","s","t">>), PyStr(<<"/","t","e","s","t">>),
                           PyStr(<<"P","O","S","T">>), PyInt(200),
                           ResponseBodyOf(PyStr(<<"{","}">>)))),
     EnvelopeOf(PyStr(<<"1",".","0">>),
                ResponseOf(PyStr(<<"t","e","s","t">>), PyStr(<<"/","t","e","s","t">>),
                           PyStr(<<"P","O","S","T">>), PyInt(200),
                           ResponseBodyOf(
                             PyDict(<< <<<<"s","t","a","t","u","s">>,
                                         PyStr(<<"s","u","c","c","e","s","s">>)>> >>)))),
     EnvelopeOf(PyStr(<<"1",".","0">>),
                ResponseOf(PyStr(<<"t","e","s","t">>), PyStr(<<"/","t","e","s","t">>),
                           PyStr(<<"P","O","S","T">>), PyInt(200), Absent)) >>

\* the texts a body is drawn from: JSON documents, and texts that are not
BodyTexts ==
  { valid_body.s, <<"{","}">>, <<"n","u","l","l">>, <<" ","["," ","]"," ">>, <<"[","1",","," ","2","]">>, <<"-","1",".","5","e","3">>,
    <<"\"", "x", "\"">>,
    <<"{", "\"", "a", "\"", ":", " ", "[", "t", "r", "u", "e", "]", "}">>,
    <<"\"", "\\", "u", "0", "0", "e", "9", "\\", "n", "\"">>,
    <<"N","a","N">>, <<"-","I","n","f","i","n","i","t","y">>,
    <<>>, <<" ">>, <<"{">>, <<"1"," ","2">>, <<"[","1",",","]">>, <<"0","1">>, <<"1",".">>, <<"-">>, <<"t","r","u">>,
    <<"s","t","a","t","u","s",":"," ","o","k">>, <<"{","'","a","'",":"," ","1","}">>,
    <<"\"", "x">>,
    <<"\"", "\\", "q", "\"">>,
    <<"\"", "\n", "\"">>,
    <<"{", "\"", "a", "\"", "}">>,
    <<"{", "\"", "a", "\"", ":", "1", ",", "}">>,
    <<"{", "a", ":", "1", "}">> }

Bodies ==
  {PyStr(text) : text \in BodyTexts}
    \cup {Absent, None, PyInt(1), PyList(<<PyStr(<<"a">>)>>),
          PyDict(<< <<<<"s","t","a","t","u","s">>, PyStr(<<"s","u","c","c","e","s","s">>)>> >>)}

ResponseBodies ==
  {ResponseBodyOf(body) : body \in Bodies}
    \cup {Absent, None, PyStr(<<"a","p","p","l","i","c","a","t","i","o","n","/","j","s","o","n">>), PyDict(<<>>)}
    \cup {PyDict(<< <<<<"a","p","p","l","i","c","a","t","i","o","n","/","j","s","o","n">>, entry>> >>) :
            entry \in {None, PyStr(<<"b","o","d","y">>), PyList(<<PyStr(<<"b","o","d","y">>)>>),
                       PyList(<<>>)}}

StatusCodes ==
  {Absent, PyInt(200), PyInt(500), PyInt(201), PyStr(<<"2","0","0">>), PyBool(TRUE)}

MessageVersions == {Absent, PyStr(<<"1",".","0">>), PyStr(<<"2",".","0">>), PyInt(1)}

Responses ==
  {ResponseOf(a, p, p, c, b) :
     a \in {Absent, PyStr(<<"t","e","s","t">>)}, p \in {Absent, PyStr(<<"/","t","e","s","t">>)},
     c \in StatusCodes, b \in ResponseBodies}
    \cup {Absent, None, PyInt(200), PyList(<<>>), PyStr(<<>>),
          PyList(<<PyStr(<<"h","t","t","p","S","t","a","t","u","s","C","o","d","e">>)>>),
          PyStr(<<"a","c","t","i","o","n","G","r","o","u","p"," ","a","p","i","P","a","t","h"," ","h","t","t","p","M","e","t","h","o","d"," ","r","e","s","p","o","n","s","e","B","o","d","y">>)}

ResponsesToValidate ==
  {EnvelopeOf(v, r) : v \in MessageVersions, r \in Responses}
    \cup {VALID_EXAMPLE, None, PyList(<<>>), PyStr(<<"1",".","0">>)}
    \cup {INVALID_EXAMPLES[i] : i \in 1..Len(INVALID_EXAMPLES)}

InitValidation ==
  /\ validation \in {[pc |-> "start", response |-> r,
                      result |-> Validated(<<>>)] : r \in ResponsesToValidate}
  /\ mapper = "complete"
  /\ operation_id = ""
  /\ bedrock_parameters = <<>>
  /\ outcome = NotCalled
  /\ pc = "idle"
  /\ gw = GwIdle
  /\ heap = <<>>
  /\ invocations = <<>>
  /\ returned = <<>>
  /\ lam = LamIdle
  /\ wait = WaitIdle

\* errors = validate_response(response)
ValidateResponse ==
  /\ validation.pc = "start"
  /\ validation' = [validation EXCEPT
                      !.pc = "done",
                      !.result = validate_response(validation.response)]
  /\ UNCHANGED <<mapper, operation_id, bedrock_parameters, outcome, pc, gw,
               heap, invocations, returned, lam, wait>>

NextValidation == ValidateResponse

SpecValidation == InitValidation /\ [][NextValidation]_vars

---------------------------------------------------------------------------
(* C21 *)

\* the response has no messageVersion
LacksMessageVersion(response) ==
  response.t # "dict" \/ ~py_has(response, <<"m","e","s","s","a","g","e","V","e","r","s","i","o","n">>)

\* the response object of the envelope, when there is one
HasResponseObject(response) ==
  /\ response.t = "dict"
  /\ py_has(response, <<"r","e","s","p","o","n","s","e">>)
  /\ py_get(response, <<"r","e","s","p","o","n","s","e">>, None).t = "dict"

\* one of the required fields of the response object is not there
LacksRequiredField(response) ==
  \/ ~HasResponseObject(response)
  \/ \E i \in 1..Len(required) :
       ~py_has(py_get(response, <<"r","e","s","p","o","n","s","e">>, None), required[i])

\* responseBody['application/json']['body'] of the envelope, Absent when
\* there is no such entry
BodyOf(response) ==
  LET resp == py_get(response, <<"r","e","s","p","o","n","s","e">>, None)
      responseBody == py_get(resp, <<"r","e","s","p","o","n","s","e","B","o","d","y">>, None)
      json_body    == py_get(responseBody, <<"a","p","p","l","i","c","a","t","i","o","n","/","j","s","o","n">>, None)
  IN  IF /\ HasResponseObject(response)
         /\ responseBody.t = "dict"
         /\ json_body.t = "dict"
        THEN py_get(json_body, <<"b","o","d","y">>, Absent)
        ELSE Absent

\* the body is not a string holding a JSON document (one json.loads reads)
BodyNotJsonString(response) ==
  \/ BodyOf(response).t # "str"
  \/ ~json_loads_returns(BodyOf(response).s)

Validation(b) == validation.pc = "done" /\ validation.result.raised = b

\* C21: validate_response returns an empty error list for VALID_EXAMPLE,
\* and returns a non-empty error list for every response that lacks
\* messageVersion, lacks responseBody or another required response field,
\* or whose responseBody['application/json']['body'] is not a string
\* containing valid JSON.
C21_ValidatorVerdict ==
  validation.pc = "done"
  => /\ validation.response = VALID_EXAMPLE
          => validation.result = Validated(<<>>)
     /\ ( \/ LacksMessageVersion(validation.response)
          \/ LacksRequiredField(validation.response)
          \/ BodyNotJsonString(validation.response) )
          => /\ validation.result.raised = ""
             /\ validation.result.errors # <<>>

\* the response object, and the 'application/json' entry of a dict
\* responseBody, are what the membership tests can read: not None, not a
\* number; and what can be subscripted once a test passed
Readable(response) ==
  LET resp == py_get(response, <<"r","e","s","p","o","n","s","e">>, None)
      responseBody == py_get(resp, <<"r","e","s","p","o","n","s","e","B","o","d","y">>, None)
  IN  response.t = "dict" /\ py_has(response, <<"r","e","s","p","o","n","s","e">>)
      => /\ resp.t = "dict"
         /\ ( /\ responseBody.t = "dict"
              /\ py_has(responseBody, <<"a","p","p","l","i","c","a","t","i","o","n","/","j","s","o","n">>) )
              => py_get(responseBody, <<"a","p","p","l","i","c","a","t","i","o","n","/","j","s","o","n">>, None).t = "dict"

\* C21, for the responses validate_response can read: it raises nothing,
\* VALID_EXAMPLE has no error, and a missing messageVersion, a missing
\* required field and a body that is not a JSON string each have one.
C21_ReadableVerdict ==
  (validation.pc = "done" /\ Readable(validation.response))
  => /\ validation.result.raised = ""
     /\ validation.response = VALID_EXAMPLE
          => validation.result.errors = <<>>
     /\ ( \/ LacksMessageVersion(validation.response)
          \/ LacksRequiredField(validation.response)
          \/ BodyNotJsonString(validation.response) )
          => validation.result.errors # <<>>

\* VALID_EXAMPLE was validated
C21_WitnessValid ==
  validation.pc = "done" /\ validation.response = VALID_EXAMPLE

\* an envelope whose response is None was validated: TypeError
C21_WitnessRaises ==
  /\ Validation("TypeError")
  /\ validation.response = EnvelopeOf(PyStr(<<"1",".","0">>), None)
=============================================================================
